---- MODULE Spec2Model ----
(***************************************************************************)
(* Othello rules engine (src/src/board.py) and its search engines.         *)
(*                                                                         *)
(* The heap is modelled explicitly: an OthelloBoard object holds a list of *)
(* row references, and every row is a mutable list living in `rows`.  A    *)
(* write through one object is seen by every object that references the   *)
(* same row, exactly as with Python lists.                                 *)
(***************************************************************************)
EXTENDS Integers, Sequences, FiniteSets, TLC

VARIABLES
    rows,     \* heap of row lists: row id -> [0..BOARD_SIZE-1 -> cell]
    boards,   \* the OthelloBoard objects: name -> [board, current_player]
    call,     \* the call that has just returned (or idle), with its result
    line,     \* which reference game the authoritative board follows
    pos,      \* how many steps of the reference game have been played
    off       \* how many state-changing operations were made off that game

vars == <<rows, boards, call, line, pos, off>>

-----------------------------------------------------------------------------
(* constants.py *)

BOARD_SIZE == 8
BLACK == "BLACK"
WHITE == "WHITE"
None == "None"

(* Exploration bound: the number of state-changing operations made off the *)
(* reference game (while a clone exists every such operation counts).      *)
MaxOff == 1

(* The engines are asked for a move on positions with at most this many    *)
(* empty cells.                                                            *)
MaxEmpty == 3

(* The minimax engine is asked on positions with at most this many empty   *)
(* cells: enough for the search to take its breaks.                        *)
MaxEmptyMinimax == 4

(* The tree of the MCTS engine is grown on positions with at most this     *)
(* many empty cells: enough for a child of the root to be visited twice    *)
(* and lose.                                                               *)
MaxEmptyMCTS == 5

(* The greatest iteration budget an MCTS engine is constructed with. *)
MaxIter == 4

-----------------------------------------------------------------------------
(* Reference games.  A step is a move <<row, col>>, or Pass when the       *)
(* player to move has no legal move and the caller toggles current_player  *)
(* (main.py lines 61-62).                                                  *)

Pass == <<-1, -1>>

ShortGame ==
    << <<5,4>>, <<3,5>>, <<2,4>>, <<5,5>>, <<4,6>>, <<5,3>>, <<6,4>>,
       <<4,5>>, <<4,2>> >>

FullGame ==
    << <<2,3>>, <<2,2>>, <<5,4>>, <<1,3>>, <<0,3>>, <<0,4>>, <<1,1>>,
       <<0,2>>, Pass, <<2,0>>, <<0,0>>, <<3,1>>, <<2,1>>, <<5,3>>, <<4,1>>,
       <<3,5>>, <<2,4>>, <<2,5>>, <<1,4>>, <<4,0>>, <<4,6>>, <<5,1>>,
       <<6,1>>, <<4,5>>, <<5,5>>, <<6,2>>, <<2,6>>, <<2,7>>, <<1,2>>,
       <<6,4>>, <<4,2>>, <<4,7>>, <<6,3>>, <<5,6>>, <<7,4>>, <<1,5>>,
       <<6,7>>, <<3,6>>, <<1,6>>, <<6,5>>, <<5,7>>, <<6,6>>, <<7,5>>,
       <<3,0>>, <<3,2>>, <<7,7>>, <<6,0>>, <<0,6>>, <<0,5>>, <<1,0>>,
       <<3,7>>, <<5,2>>, <<0,1>>, <<7,2>>, <<0,7>>, <<7,1>>, <<7,6>>,
       <<7,3>>, <<5,0>>, <<1,7>>, <<7,0>> >>

Games == <<ShortGame, FullGame>>

-----------------------------------------------------------------------------
(* board.py: pure translations.  A board value `b` is the record           *)
(* [board |-> grid, current_player |-> colour], grid[r][c] a cell.         *)

Idx == 0 .. BOARD_SIZE - 1

InRange(r, c) == 0 <= r /\ r < BOARD_SIZE /\ 0 <= c /\ c < BOARD_SIZE

(* variant: (1, 0) mistyped as a second (0, 1) *)
directions_no_down ==
    << <<0,1>>, <<0,1>>, <<0,-1>>, <<-1,0>>,
       <<1,1>>, <<-1,-1>>, <<1,-1>>, <<-1,1>> >>

directions ==
    << <<0,1>>, <<1,0>>, <<0,-1>>, <<-1,0>>,
       <<1,1>>, <<-1,-1>>, <<1,-1>>, <<-1,1>> >>

EmptyGrid == [r \in Idx |-> [c \in Idx |-> None]]

(* variant: the two colours of the start position exchanged *)
initialize_board_swapped(grid) ==
    LET center == BOARD_SIZE \div 2 IN
    [grid EXCEPT ![center-1][center-1] = BLACK,
                 ![center-1][center]   = WHITE,
                 ![center][center-1]   = WHITE,
                 ![center][center]     = BLACK]

initialize_board(grid) ==
    LET center == BOARD_SIZE \div 2 IN
    [grid EXCEPT ![center-1][center-1] = WHITE,
                 ![center-1][center]   = BLACK,
                 ![center][center-1]   = BLACK,
                 ![center][center]     = WHITE]

NewBoard == [board |-> initialize_board(EmptyGrid), current_player |-> BLACK]

opposite_color(b) == IF b.current_player = BLACK THEN WHITE ELSE BLACK

(* variant: the walk does not stop at an empty cell *)
RECURSIVE would_flip_walk_over_empty(_, _, _, _, _)
would_flip_walk_over_empty(b, r, c, dr, dc) ==
    IF ~InRange(r, c) THEN FALSE
    ELSE IF b.board[r][c] = b.current_player THEN TRUE
    ELSE would_flip_walk_over_empty(b, r + dr, c + dc, dr, dc)

RECURSIVE would_flip_walk(_, _, _, _, _)
would_flip_walk(b, r, c, dr, dc) ==
    IF ~InRange(r, c) THEN FALSE
    ELSE IF b.board[r][c] = None THEN FALSE
    ELSE IF b.board[r][c] = b.current_player THEN TRUE
    ELSE would_flip_walk(b, r + dr, c + dc, dr, dc)

would_flip(b, row, col, dr, dc) ==
    LET r == row + dr
        c == col + dc
    IN  IF ~InRange(r, c) THEN FALSE
        ELSE IF b.board[r][c] # opposite_color(b) THEN FALSE
        ELSE would_flip_walk(b, r + dr, c + dc, dr, dc)

is_valid_move(b, row, col) ==
    IF b.board[row][col] # None THEN FALSE
    ELSE \E i \in 1..Len(directions) :
            would_flip(b, row, col, directions[i][1], directions[i][2])

RECURSIVE flip_loop(_, _, _, _, _)
flip_loop(b, r, c, dr, dc) ==
    IF b.board[r][c] = opposite_color(b)
    THEN flip_loop([b EXCEPT !.board[r][c] = b.current_player],
                   r + dr, c + dc, dr, dc)
    ELSE b

flip_pieces(b, row, col, dr, dc) ==
    IF ~would_flip(b, row, col, dr, dc) THEN b
    ELSE flip_loop(b, row + dr, col + dc, dr, dc)

RECURSIVE flip_all(_, _, _, _)
flip_all(b, row, col, i) ==
    IF i > Len(directions) THEN b
    ELSE flip_all(flip_pieces(b, row, col, directions[i][1], directions[i][2]),
                  row, col, i + 1)

(* variant: the turn stays with the mover when the opponent cannot move *)
make_move_autopass(b, row, col) ==
    IF ~is_valid_move(b, row, col) THEN [ret |-> FALSE, b |-> b]
    ELSE LET placed  == [b EXCEPT !.board[row][col] = b.current_player]
             flipped == flip_all(placed, row, col, 1)
             next    == [flipped EXCEPT !.current_player = opposite_color(flipped)]
         IN  [ret |-> TRUE,
              b   |-> IF \E m \in Idx \X Idx : is_valid_move(next, m[1], m[2])
                      THEN next ELSE flipped]

(* variant: the piece is placed before the move is validated *)
make_move_place_first(b, row, col) ==
    LET placed == [b EXCEPT !.board[row][col] = b.current_player] IN
    IF ~is_valid_move(b, row, col) THEN [ret |-> FALSE, b |-> placed]
    ELSE LET flipped == flip_all(placed, row, col, 1)
         IN  [ret |-> TRUE,
              b   |-> [flipped EXCEPT !.current_player = opposite_color(flipped)]]

(* variant: the captured pieces are flipped but the new piece is not placed *)
make_move_no_place(b, row, col) ==
    IF ~is_valid_move(b, row, col) THEN [ret |-> FALSE, b |-> b]
    ELSE LET flipped == flip_all(b, row, col, 1)
         IN  [ret |-> TRUE,
              b   |-> [flipped EXCEPT !.current_player = opposite_color(flipped)]]

(* make_move: the returned value and the board afterwards. *)
make_move(b, row, col) ==
    IF ~is_valid_move(b, row, col) THEN [ret |-> FALSE, b |-> b]
    ELSE LET placed  == [b EXCEPT !.board[row][col] = b.current_player]
             flipped == flip_all(placed, row, col, 1)
         IN  [ret |-> TRUE,
              b   |-> [flipped EXCEPT !.current_player = opposite_color(flipped)]]

AllCells == [i \in 1 .. BOARD_SIZE * BOARD_SIZE |->
                <<(i - 1) \div BOARD_SIZE, (i - 1) % BOARD_SIZE>>]

get_valid_moves(b) ==
    SelectSeq(AllCells, LAMBDA m : is_valid_move(b, m[1], m[2]))

Count(b, colour) ==
    Cardinality({m \in Idx \X Idx : b.board[m[1]][m[2]] = colour})

get_score(b) == <<Count(b, BLACK), Count(b, WHITE)>>

(* variant: current_player is left swapped *)
is_game_over_no_restore(b) ==
    IF get_valid_moves(b) # <<>> THEN [ret |-> FALSE, b |-> b]
    ELSE LET swapped            == [b EXCEPT !.current_player = opposite_color(b)]
             opponent_has_moves == get_valid_moves(swapped) # <<>>
         IN  [ret |-> ~opponent_has_moves, b |-> swapped]

(* variant: only the active player's moves are looked at *)
is_game_over_current_only(b) ==
    [ret |-> get_valid_moves(b) = <<>>, b |-> b]

(* is_game_over: the returned value and the board afterwards. *)
is_game_over(b) ==
    IF get_valid_moves(b) # <<>> THEN [ret |-> FALSE, b |-> b]
    ELSE LET original_player    == b.current_player
             swapped            == [b EXCEPT !.current_player = opposite_color(b)]
             opponent_has_moves == get_valid_moves(swapped) # <<>>
             restored           == [swapped EXCEPT !.current_player = original_player]
         IN  [ret |-> ~opponent_has_moves, b |-> restored]

-----------------------------------------------------------------------------
(* The heap.  "orig" is the authoritative board of the game, "clone" the   *)
(* object returned by the latest clone() call (older clones are garbage).  *)

Objs == {"orig", "clone"}
RowIds == 0 .. 2 * BOARD_SIZE - 1

Absent == [board |-> <<>>, current_player |-> None]

Exists(o) == boards[o] # Absent

(* The board value an object denotes in a given heap. *)
Deref(obj, heap) ==
    [board |-> [r \in DOMAIN obj.board |-> heap[obj.board[r]]],
     current_player |-> obj.current_player]

View(o) == Deref(boards[o], rows)

Snapshot == [o \in Objs |-> View(o)]

(* The heap after the cells of object o have been written to become grid:  *)
(* every write self.board[r][c] = v goes to the row list self.board[r].    *)
StoreRows(o, grid) ==
    [id \in RowIds |->
        IF \E r \in Idx : boards[o].board[r] = id
        THEN grid[CHOOSE r \in Idx : boards[o].board[r] = id]
        ELSE rows[id]]

(* clone(): OthelloBoard() builds a start board whose rows are dropped at  *)
(* once when .board is rebound to the list of row copies; the copies are   *)
(* fresh lists (ids BOARD_SIZE..2*BOARD_SIZE-1).                           *)
(* variant: the clone references the original's rows *)
clone_shared(self) ==
    [obj  |-> [board |-> boards[self].board,
               current_player |-> boards[self].current_player],
     rows |-> rows]

clone(self) ==
    [obj  |-> [board |-> [r \in Idx |-> BOARD_SIZE + r],
               current_player |-> boards[self].current_player],
     rows |-> [id \in RowIds |->
                  IF id >= BOARD_SIZE
                  THEN rows[boards[self].board[id - BOARD_SIZE]]
                  ELSE rows[id]]]

-----------------------------------------------------------------------------
(* Calls.  An action runs one whole call and records it in `call`; Return  *)
(* is the caller dropping the result before it makes its next call.  info  *)
(* is what an engine did inside the call: the calls of its search, the     *)
(* children of the root of its tree.                                       *)

Idle == [op |-> "idle", target |-> "orig", row |-> 0, col |-> 0,
         arg |-> <<>>, ret |-> FALSE, pre |-> <<>>, info |-> <<>>]

Record(name, o, row, col, ret) ==
    [op |-> name, target |-> o, row |-> row, col |-> col,
     arg |-> <<>>, ret |-> ret, pre |-> Snapshot, info |-> <<>>]

Game == Games[line]

(* The next step of the reference game, when the authoritative board is    *)
(* still on it.                                                            *)
OnLine(o, step) ==
    /\ o = "orig"
    /\ off = 0
    /\ ~Exists("clone")
    /\ pos < Len(Game)
    /\ Game[pos + 1] = step

InitHeap ==
    /\ rows = [id \in RowIds |->
                 IF id < BOARD_SIZE THEN NewBoard.board[id]
                 ELSE [c \in Idx |-> None]]
    /\ boards = [o \in Objs |->
                   IF o = "orig"
                   THEN [board |-> [r \in Idx |-> r], current_player |-> BLACK]
                   ELSE Absent]
    /\ call = Idle
    /\ pos = 0
    /\ off = 0

Init == InitHeap /\ line \in 1 .. Len(Games)

(* A state-changing step either follows the reference game or spends one   *)
(* unit of the exploration budget.                                         *)
Spend(o, step) ==
    IF OnLine(o, step)
    THEN pos' = pos + 1 /\ off' = off
    ELSE off < MaxOff /\ pos' = pos /\ off' = off + 1

MakeMove(o, row, col) ==
    /\ call.op = "idle"
    /\ Exists(o)
    /\ LET res == make_move(View(o), row, col) IN
       /\ call' = Record("make_move", o, row, col, res.ret)
       /\ rows' = StoreRows(o, res.b.board)
       /\ boards' = [boards EXCEPT ![o].current_player = res.b.current_player]
       /\ IF res.ret THEN Spend(o, <<row, col>>)
                     ELSE UNCHANGED <<pos, off>>
    /\ UNCHANGED line

(* board.current_player = board._opposite_color(), as the callers do to    *)
(* pass the turn (main.py 62, 75, 80; minimax_ai.py 94, 140).              *)
TogglePlayer(o) ==
    /\ call.op = "idle"
    /\ Exists(o)
    /\ call' = Record("toggle", o, 0, 0, FALSE)
    /\ boards' = [boards EXCEPT ![o].current_player = opposite_color(View(o))]
    /\ Spend(o, Pass)
    /\ UNCHANGED <<rows, line>>

Clone ==
    /\ call.op = "idle"
    /\ LET res == clone("orig") IN
       /\ boards' = [boards EXCEPT !["clone"] = res.obj]
       /\ rows' = res.rows
    /\ call' = Record("clone", "orig", 0, 0, FALSE)
    /\ UNCHANGED <<line, pos, off>>

GetValidMoves(o) ==
    /\ call.op = "idle"
    /\ Exists(o)
    /\ call' = Record("get_valid_moves", o, 0, 0, get_valid_moves(View(o)))
    /\ UNCHANGED <<rows, boards, line, pos, off>>

GetScore(o) ==
    /\ call.op = "idle"
    /\ Exists(o)
    /\ call' = Record("get_score", o, 0, 0, get_score(View(o)))
    /\ UNCHANGED <<rows, boards, line, pos, off>>

IsGameOver(o) ==
    /\ call.op = "idle"
    /\ Exists(o)
    /\ LET res == is_game_over(View(o)) IN
       /\ call' = Record("is_game_over", o, 0, 0, res.ret)
       /\ boards' = [boards EXCEPT ![o].current_player = res.b.current_player]
    /\ UNCHANGED <<rows, line, pos, off>>

Return ==
    /\ call.op \notin {"idle", "simulate", "mcts"}
    /\ call' = Idle
    /\ UNCHANGED <<rows, boards, line, pos, off>>

Next ==
    \/ \E o \in Objs, row \in Idx, col \in Idx : MakeMove(o, row, col)
    \/ \E o \in Objs : TogglePlayer(o)
    \/ \E o \in Objs : GetValidMoves(o)
    \/ \E o \in Objs : GetScore(o)
    \/ \E o \in Objs : IsGameOver(o)
    \/ Return

Spec == Init /\ [][Next]_vars

(* The same calls with clone(), on the short reference game. *)
InitClone == InitHeap /\ line = 1

NextClone ==
    \/ Next
    \/ Clone

SpecClone == InitClone /\ [][NextClone]_vars

-----------------------------------------------------------------------------
(* ai/minimax_ai.py.  Scores are floats in the source; every coefficient   *)
(* is a multiple of 0.1 and every weight an integer, so the model carries  *)
(* ten times the score as an exact integer.  float('inf') is Inf, larger   *)
(* than any score.                                                         *)

MAX_DEPTH == 5

Inf == 1000000000

NoneMove == <<>>

(* F(x), the argument x being evaluated once before F is applied. *)
With(x, F(_)) == CHOOSE y \in {F(v) : v \in {x}} : TRUE

Max(a, b) == IF a >= b THEN a ELSE b
Min(a, b) == IF a <= b THEN a ELSE b

corners ==
    << <<0, 0>>, <<0, BOARD_SIZE-1>>, <<BOARD_SIZE-1, 0>>,
       <<BOARD_SIZE-1, BOARD_SIZE-1>> >>

InSeq(x, seq) == \E i \in 1 .. Len(seq) : seq[i] = x

minimax_position_weights ==
    << <<1000, -100, 20, 10, 10, 20, -100, 1000>>,
       <<-100, -200, -5, -5, -5, -5, -200, -100>>,
       <<20,   -5,    5,  3,  3,  5,   -5,   20>>,
       <<10,   -5,    3,  2,  2,  3,   -5,   10>>,
       <<10,   -5,    3,  2,  2,  3,   -5,   10>>,
       <<20,   -5,    5,  3,  3,  5,   -5,   20>>,
       <<-100, -200, -5, -5, -5, -5, -200, -100>>,
       <<1000, -100, 20, 10, 10, 20, -100, 1000>> >>

corner_adjacent ==
    << <<0, 1>>, <<1, 0>>, <<1, 1>>,
       <<0, BOARD_SIZE-2>>, <<1, BOARD_SIZE-1>>, <<1, BOARD_SIZE-2>>,
       <<BOARD_SIZE-2, 0>>, <<BOARD_SIZE-1, 1>>, <<BOARD_SIZE-2, 1>>,
       <<BOARD_SIZE-2, BOARD_SIZE-1>>, <<BOARD_SIZE-1, BOARD_SIZE-2>>,
       <<BOARD_SIZE-2, BOARD_SIZE-2>> >>

(* if cell == self.color: +w  elif cell == board._opposite_color(): -w     *)
SignedTerm(color, board, m, w) ==
    IF board.board[m[1]][m[2]] = color THEN w
    ELSE IF board.board[m[1]][m[2]] = opposite_color(board) THEN 0 - w
    ELSE 0

(* The sum of SignedTerm over the cells seq[i..], each with weight         *)
(* weights[row+1][col+1].                                                  *)
RECURSIVE WeightedSum(_, _, _, _, _)
WeightedSum(color, board, weights, seq, i) ==
    IF i > Len(seq) THEN 0
    ELSE SignedTerm(color, board, seq[i], weights[seq[i][1] + 1][seq[i][2] + 1])
         + WeightedSum(color, board, weights, seq, i + 1)

(* The same with one weight for every cell of seq. *)
RECURSIVE FlatSum(_, _, _, _, _)
FlatSum(color, board, w, seq, i) ==
    IF i > Len(seq) THEN 0
    ELSE SignedTerm(color, board, seq[i], w)
         + FlatSum(color, board, w, seq, i + 1)

evaluate_corners(color, board) == FlatSum(color, board, 100, corners, 1)

EdgeCells ==
    SelectSeq(AllCells,
              LAMBDA m : /\ ~InSeq(m, corners)
                         /\ \/ m[1] = 0 \/ m[1] = BOARD_SIZE - 1
                            \/ m[2] = 0 \/ m[2] = BOARD_SIZE - 1)

evaluate_edges(color, board) == FlatSum(color, board, 10, EdgeCells, 1)

(* computed by _evaluate_board and not used in its result *)
evaluate_corner_danger(color, board) ==
    0 - FlatSum(color, board, 50, corner_adjacent, 1)

(* position_score of MinimaxAI._evaluate_board *)
minimax_position_score(color, board) ==
    WeightedSum(color, board, minimax_position_weights, AllCells, 1)

(* mobility_score of MinimaxAI._evaluate_board: the moves of the board's   *)
(* current_player minus those after the toggle, times 2.0                  *)
minimax_mobility_score(color, board) ==
    LET my_moves  == Len(get_valid_moves(board))
        swapped   == [board EXCEPT !.current_player = opposite_color(board)]
        opp_moves == Len(get_valid_moves(swapped))
    IN  (my_moves - opp_moves) * 2

(* MinimaxAI._evaluate_board: ten times the returned score, and the board  *)
(* as the call leaves it.                                                  *)
minimax_evaluate_board(color, board) ==
    LET black_score    == get_score(board)[1]
        white_score    == get_score(board)[2]
        total_pieces   == black_score + white_score
        score_diff     == IF color = BLACK THEN black_score - white_score
                                           ELSE white_score - black_score
        position_score == minimax_position_score(color, board)
        swapped        == [board EXCEPT !.current_player = opposite_color(board)]
        reset          == [swapped EXCEPT !.current_player = color]
        mobility_score == minimax_mobility_score(color, board)
        corner_score   == evaluate_corners(color, reset)
        edge_score     == evaluate_edges(color, reset)
    IN  [val |-> IF total_pieces < 20
                 THEN position_score * 6 + mobility_score * 4
                      + corner_score * 2 + score_diff * 1
                 ELSE IF total_pieces < 50
                 THEN position_score * 4 + mobility_score * 3
                      + corner_score * 3 + edge_score * 2 + score_diff * 2
                 ELSE score_diff * 8 + corner_score * 2 + position_score * 1,
         b   |-> reset]

(* The board as _evaluate_board of the engine of get_move `op` leaves it:  *)
(* ExpectimaxAI._evaluate_board assigns to nothing of the board.           *)
board_after_evaluate(op, color, board) ==
    IF op = "minimax_get_move" THEN minimax_evaluate_board(color, board).b
    ELSE board

(* new_board = board.clone(): a board of row copies *)
CloneValue(board) ==
    [board |-> [r \in Idx |-> [c \in Idx |-> board.board[r][c]]],
     current_player |-> board.current_player]

(* variant: the loop goes on with the board the move was made on *)
TryMove_no_clone(board, move) ==
    [child |-> make_move(CloneValue(board), move[1], move[2]).b,
     board |-> make_move(CloneValue(board), move[1], move[2]).b]

(* new_board = board.clone(); new_board.make_move(move): the new board,    *)
(* and the board the loop goes on with.                                    *)
TryMove(board, move) ==
    [child |-> make_move(CloneValue(board), move[1], move[2]).b,
     board |-> board]

RECURSIVE minimax(_, _, _, _, _, _)
RECURSIVE minimax_max_loop(_, _, _, _, _, _, _, _)
RECURSIVE minimax_min_loop(_, _, _, _, _, _, _, _)

minimax_max_loop(color, board, valid_moves, i, depth, alpha, beta, max_eval) ==
    IF i > Len(valid_moves) THEN max_eval
    ELSE LET try   == TryMove(board, valid_moves[i])
             eval  == minimax(color, try.child, depth - 1, alpha, beta, FALSE)
             best  == Max(max_eval, eval)
             alpha2 == Max(alpha, eval)
         IN  IF beta <= alpha2 THEN best
             ELSE minimax_max_loop(color, try.board, valid_moves, i + 1, depth,
                                   alpha2, beta, best)

minimax_min_loop(color, board, valid_moves, i, depth, alpha, beta, min_eval) ==
    IF i > Len(valid_moves) THEN min_eval
    ELSE LET try   == TryMove(board, valid_moves[i])
             eval  == minimax(color, try.child, depth - 1, alpha, beta, TRUE)
             best  == Min(min_eval, eval)
             beta2 == Min(beta, eval)
         IN  IF beta2 <= alpha THEN best
             ELSE minimax_min_loop(color, try.board, valid_moves, i + 1, depth,
                                   alpha, beta2, best)

minimax(color, board, depth, alpha, beta, maximizing) ==
    IF depth = 0 THEN minimax_evaluate_board(color, board).val
    ELSE LET valid_moves == get_valid_moves(board) IN
         IF valid_moves = <<>>
         THEN LET passed == [board EXCEPT !.current_player = opposite_color(board)]
              IN  IF get_valid_moves(passed) = <<>>
                  THEN minimax_evaluate_board(color, passed).val
                  ELSE minimax(color, passed, depth - 1, alpha, beta, ~maximizing)
         ELSE IF maximizing
              THEN minimax_max_loop(color, board, valid_moves, 1, depth,
                                    alpha, beta, 0 - Inf)
              ELSE minimax_min_loop(color, board, valid_moves, 1, depth,
                                    alpha, beta, Inf)

(* corner moves if any, else edge moves if any, else all moves *)
IsCornerMove(m) == InSeq(m, corners)

IsEdgeMove(m) ==
    /\ ~IsCornerMove(m)
    /\ \/ m[1] = 0 \/ m[1] = BOARD_SIZE - 1
       \/ m[2] = 0 \/ m[2] = BOARD_SIZE - 1

(* variant: the corner moves replace the list also when there is none *)
Prioritized_corners_always(valid_moves) == SelectSeq(valid_moves, IsCornerMove)

Prioritized(valid_moves) ==
    LET corner_moves == SelectSeq(valid_moves, IsCornerMove)
        edge_moves   == SelectSeq(valid_moves, IsEdgeMove)
    IN  IF corner_moves # <<>> THEN corner_moves
        ELSE IF edge_moves # <<>> THEN edge_moves
        ELSE valid_moves

RECURSIVE minimax_root_loop(_, _, _, _, _, _, _, _)
minimax_root_loop(color, board, valid_moves, i, best_score, best_move, alpha, beta) ==
    IF i > Len(valid_moves) THEN [move |-> best_move, b |-> board]
    ELSE LET move   == valid_moves[i]
             try    == TryMove(board, move)
             score  == minimax(color, try.child, MAX_DEPTH - 1,
                               alpha, beta, FALSE)
             better == score > best_score
             best_score2 == IF better THEN score ELSE best_score
             best_move2  == IF better THEN move ELSE best_move
             alpha2 == Max(alpha, best_score2)
         IN  IF beta <= alpha2 THEN [move |-> best_move2, b |-> try.board]
             ELSE minimax_root_loop(color, try.board, valid_moves, i + 1,
                                    best_score2, best_move2, alpha2, beta)

(* MinimaxAI.get_move: the returned move and the board afterwards. *)
minimax_get_move(color, board) ==
    LET valid_moves == get_valid_moves(board) IN
    IF valid_moves = <<>> THEN [move |-> NoneMove, b |-> board]
    ELSE minimax_root_loop(color, board, Prioritized(valid_moves), 1,
                           0 - Inf, NoneMove, 0 - Inf, Inf)

-----------------------------------------------------------------------------
(* The search of MinimaxAI with the calls it makes written down.  A call   *)
(* of _minimax is recorded with its arguments, the current_player of its   *)
(* board on entry, its nesting level below get_move, the depth and         *)
(* maximizing flag of its caller (get_move counts as a maximizing caller   *)
(* of depth MAX_DEPTH), whether it is the recursion of a pass, and whether *)
(* it enumerates moves.  prune = FALSE is the same search with the         *)
(* `beta <= alpha` breaks disabled.                                        *)

(* no board: the call evaluates none *)
NoBoard == <<>>

(* not a chance node: a call of _minimax, or of _expectimax in another     *)
(* branch                                                                  *)
NoChance == <<>>

Entry(board, depth, maximizing, from, enumerates, evaluated) ==
    [depth |-> depth, maximizing |-> maximizing,
     player |-> board.current_player, level |-> from.level + 1,
     caller_depth |-> from.depth, caller_maximizing |-> from.maximizing,
     pass |-> from.pass, enumerates |-> enumerates, evaluated |-> evaluated,
     chance |-> NoChance]

(* What a call of _expectimax did at a chance node: the draw of            *)
(* random.random() (times ten) and self.opponent_randomness, the legal     *)
(* moves, the moves it made a call for with the value each call returned,  *)
(* and the value it returned itself.                                       *)
ChanceNode(u, p, moves, tried, val) ==
    [u |-> u, p |-> p, moves |-> moves, tried |-> tried, val |-> val]

ChanceEntry(board, depth, maximizing, from, node) ==
    [Entry(board, depth, maximizing, from, TRUE, NoBoard)
        EXCEPT !.chance = node]

Caller(depth, maximizing, level, pass) ==
    [depth |-> depth, maximizing |-> maximizing, level |-> level, pass |-> pass]

RECURSIVE minimax_run(_, _, _, _, _, _, _, _)
RECURSIVE minimax_run_max_loop(_, _, _, _, _, _, _, _, _, _, _)
RECURSIVE minimax_run_min_loop(_, _, _, _, _, _, _, _, _, _, _)

minimax_run_max_loop(color, board, valid_moves, i, depth, alpha, beta, max_eval, prune, me, calls) ==
    IF i > Len(valid_moves) THEN [val |-> max_eval, calls |-> calls]
    ELSE With(minimax_run(color, TryMove(board, valid_moves[i]).child,
                          depth - 1, alpha, beta, FALSE, prune, me),
              LAMBDA sub :
                 IF prune /\ beta <= Max(alpha, sub.val)
                 THEN [val   |-> Max(max_eval, sub.val),
                       calls |-> calls \o sub.calls]
                 ELSE minimax_run_max_loop(color, board, valid_moves, i + 1,
                                           depth, Max(alpha, sub.val), beta,
                                           Max(max_eval, sub.val), prune, me,
                                           calls \o sub.calls))

(* variant: the minimizing loop breaks on eval <= beta *)
minimax_run_min_loop_cut_on_beta(color, board, valid_moves, i, depth, alpha, beta, min_eval, prune, me, calls) ==
    IF i > Len(valid_moves) THEN [val |-> min_eval, calls |-> calls]
    ELSE With(minimax_run(color, TryMove(board, valid_moves[i]).child,
                          depth - 1, alpha, beta, TRUE, prune, me),
              LAMBDA sub :
                 IF prune /\ sub.val <= beta
                 THEN [val   |-> Min(min_eval, sub.val),
                       calls |-> calls \o sub.calls]
                 ELSE minimax_run_min_loop(color, board, valid_moves, i + 1,
                                           depth, alpha, Min(beta, sub.val),
                                           Min(min_eval, sub.val), prune, me,
                                           calls \o sub.calls))

minimax_run_min_loop(color, board, valid_moves, i, depth, alpha, beta, min_eval, prune, me, calls) ==
    IF i > Len(valid_moves) THEN [val |-> min_eval, calls |-> calls]
    ELSE With(minimax_run(color, TryMove(board, valid_moves[i]).child,
                          depth - 1, alpha, beta, TRUE, prune, me),
              LAMBDA sub :
                 IF prune /\ Min(beta, sub.val) <= alpha
                 THEN [val   |-> Min(min_eval, sub.val),
                       calls |-> calls \o sub.calls]
                 ELSE minimax_run_min_loop(color, board, valid_moves, i + 1,
                                           depth, alpha, Min(beta, sub.val),
                                           Min(min_eval, sub.val), prune, me,
                                           calls \o sub.calls))

(* variant: the call made on a pass keeps the depth *)
minimax_run_pass_keeps_depth(color, board, depth, alpha, beta, maximizing, prune, from) ==
    LET valid_moves == get_valid_moves(board)
        me == Caller(depth, maximizing, from.level + 1, FALSE)
    IN
    IF depth = 0
    THEN [val   |-> minimax_evaluate_board(color, board).val,
          calls |-> <<Entry(board, depth, maximizing, from, FALSE, board)>>]
    ELSE IF valid_moves = <<>>
    THEN LET passed == [board EXCEPT !.current_player = opposite_color(board)]
         IN  IF get_valid_moves(passed) = <<>>
             THEN [val   |-> minimax_evaluate_board(color, passed).val,
                   calls |-> <<Entry(board, depth, maximizing, from, FALSE, passed)>>]
             ELSE With(minimax_run(color, passed, depth, alpha, beta,
                                   ~maximizing, prune,
                                   Caller(depth, maximizing, from.level + 1, TRUE)),
                       LAMBDA sub :
                          [val   |-> sub.val,
                           calls |-> <<Entry(board, depth, maximizing, from, FALSE, NoBoard)>>
                                        \o sub.calls])
    ELSE IF maximizing
    THEN minimax_run_max_loop(color, board, valid_moves, 1, depth, alpha, beta,
                              0 - Inf, prune, me,
                              <<Entry(board, depth, maximizing, from, TRUE, NoBoard)>>)
    ELSE minimax_run_min_loop(color, board, valid_moves, 1, depth, alpha, beta,
                              Inf, prune, me,
                              <<Entry(board, depth, maximizing, from, TRUE, NoBoard)>>)

minimax_run(color, board, depth, alpha, beta, maximizing, prune, from) ==
    LET valid_moves == get_valid_moves(board)
        me == Caller(depth, maximizing, from.level + 1, FALSE)
    IN
    IF depth = 0
    THEN [val   |-> minimax_evaluate_board(color, board).val,
          calls |-> <<Entry(board, depth, maximizing, from, FALSE, board)>>]
    ELSE IF valid_moves = <<>>
    THEN LET passed == [board EXCEPT !.current_player = opposite_color(board)]
         IN  IF get_valid_moves(passed) = <<>>
             THEN [val   |-> minimax_evaluate_board(color, passed).val,
                   calls |-> <<Entry(board, depth, maximizing, from, FALSE, passed)>>]
             ELSE With(minimax_run(color, passed, depth - 1, alpha, beta,
                                   ~maximizing, prune,
                                   Caller(depth, maximizing, from.level + 1, TRUE)),
                       LAMBDA sub :
                          [val   |-> sub.val,
                           calls |-> <<Entry(board, depth, maximizing, from, FALSE, NoBoard)>>
                                        \o sub.calls])
    ELSE IF maximizing
    THEN minimax_run_max_loop(color, board, valid_moves, 1, depth, alpha, beta,
                              0 - Inf, prune, me,
                              <<Entry(board, depth, maximizing, from, TRUE, NoBoard)>>)
    ELSE minimax_run_min_loop(color, board, valid_moves, 1, depth, alpha, beta,
                              Inf, prune, me,
                              <<Entry(board, depth, maximizing, from, TRUE, NoBoard)>>)

(* get_move as the caller of _minimax *)
GetMoveCaller == Caller(MAX_DEPTH, TRUE, 0, FALSE)

RECURSIVE minimax_run_root_loop(_, _, _, _, _, _, _, _, _, _)
minimax_run_root_loop(color, board, valid_moves, i, best_score, best_move, alpha, beta, prune, calls) ==
    IF i > Len(valid_moves)
    THEN [move |-> best_move, score |-> best_score, calls |-> calls,
          b |-> board]
    ELSE With(TryMove(board, valid_moves[i]),
              LAMBDA try :
       With(minimax_run(color, try.child, MAX_DEPTH - 1, alpha, beta, FALSE,
                        prune, GetMoveCaller),
            LAMBDA sub :
               LET better      == sub.val > best_score
                   best_score2 == IF better THEN sub.val ELSE best_score
                   best_move2  == IF better THEN valid_moves[i] ELSE best_move
               IN  IF prune /\ beta <= Max(alpha, best_score2)
                   THEN [move |-> best_move2, score |-> best_score2,
                         calls |-> calls \o sub.calls, b |-> try.board]
                   ELSE minimax_run_root_loop(color, try.board, valid_moves,
                                              i + 1, best_score2, best_move2,
                                              Max(alpha, best_score2), beta,
                                              prune, calls \o sub.calls)))

(* MinimaxAI.get_move: the move, its score, the calls of _minimax made and *)
(* the board afterwards.                                                   *)
minimax_get_move_run(color, board, prune) ==
    LET valid_moves == get_valid_moves(board) IN
    IF valid_moves = <<>>
    THEN [move |-> NoneMove, score |-> 0 - Inf, calls |-> <<>>, b |-> board]
    ELSE minimax_run_root_loop(color, board, Prioritized(valid_moves), 1,
                               0 - Inf, NoneMove, 0 - Inf, Inf, prune, <<>>)

(* The value of the subtree below a move of the position, every move of    *)
(* every node searched.                                                    *)
SubtreeValue(color, board, move) ==
    minimax_run(color, TryMove(board, move).child, MAX_DEPTH - 1,
                0 - Inf, Inf, FALSE, FALSE, GetMoveCaller).val

-----------------------------------------------------------------------------
(* ai/expectimax_ai.py.  Scores are carried times ten, as for minimax.     *)
(* random.random() and random.choices() read a tape of draws: draw.u is    *)
(* ten times the value random.random() returns, draw.k decides which       *)
(* element random.choices() returns (every weight of the table is          *)
(* positive, so every legal move can be drawn).  The n-th draw of a call   *)
(* is tape[n mod Len(tape) + 1].                                           *)

expectimax_position_weights ==
    [r \in 1 .. BOARD_SIZE |-> [c \in 1 .. BOARD_SIZE |->
        IF InSeq(<<r - 1, c - 1>>, corners) THEN 1000
        ELSE IF r - 1 \in {0, BOARD_SIZE - 1} \/ c - 1 \in {0, BOARD_SIZE - 1}
             THEN 10
        ELSE 5]]

(* ExpectimaxAI._is_stable, times ten *)
is_stable(board, row, col) ==
    IF board.board[row][col] = None THEN 0
    ELSE IF InSeq(<<row, col>>, corners) THEN 20
    ELSE IF row = 0 \/ row = BOARD_SIZE - 1 \/ col = 0 \/ col = BOARD_SIZE - 1
         THEN 10
    ELSE Cardinality({i \in 1 .. Len(directions) :
            /\ InRange(row + directions[i][1], col + directions[i][2])
            /\ board.board[row + directions[i][1]][col + directions[i][2]]
                  = board.board[row][col]})

RECURSIVE calculate_stability(_, _, _)
calculate_stability(color, board, i) ==
    IF i > Len(AllCells) THEN 0
    ELSE SignedTerm(color, board, AllCells[i],
                    is_stable(board, AllCells[i][1], AllCells[i][2]))
         + calculate_stability(color, board, i + 1)

(* position_score of ExpectimaxAI._evaluate_board, times ten *)
expectimax_position_score(color, board) ==
    WeightedSum(color, board, expectimax_position_weights, AllCells, 1)

(* ExpectimaxAI._evaluate_board, times ten *)
expectimax_evaluate_board(color, board) ==
    LET black_score    == get_score(board)[1]
        white_score    == get_score(board)[2]
        base_score     == IF color = BLACK THEN black_score - white_score
                                           ELSE white_score - black_score
        position_score == expectimax_position_score(color, board)
        mobility       == Len(get_valid_moves(board))
        mobility_score == IF board.current_player = color
                          THEN mobility * 5 ELSE 0 - mobility * 5
        stability_score == calculate_stability(color, board, 1)
    IN  base_score * 10 + position_score + mobility_score + stability_score

Draw(tape, n) == tape[(n % Len(tape)) + 1]

RECURSIVE SumSeq(_, _)
SumSeq(seq, i) == IF i > Len(seq) THEN 0 ELSE seq[i] + SumSeq(seq, i + 1)

(* The engine: self.color, self.opponent_randomness (times ten) and the    *)
(* tape its random draws come from.  Every operator returns its value, the *)
(* number of draws made so far and the calls of _expectimax made, written  *)
(* down as those of _minimax are.                                          *)
RECURSIVE expectimax(_, _, _, _, _, _)
RECURSIVE expectimax_max_loop(_, _, _, _, _, _, _, _, _)
RECURSIVE expectimax_min_loop(_, _, _, _, _, _, _, _, _, _)

expectimax_max_loop(ai, board, valid_moves, i, depth, max_eval, n, me, calls) ==
    IF i > Len(valid_moves) THEN [val |-> max_eval, n |-> n, calls |-> calls]
    ELSE With(expectimax(ai, TryMove(board, valid_moves[i]).child, depth - 1,
                         FALSE, n, me),
              LAMBDA eval :
                 expectimax_max_loop(ai, board, valid_moves, i + 1, depth,
                                     Max(max_eval, eval.val), eval.n, me,
                                     calls \o eval.calls))

(* variant: the minimizing loop stops at the first negative value *)
expectimax_min_loop_cut_off(ai, board, valid_moves, i, depth, min_eval, n, me, calls, tried) ==
    IF i > Len(valid_moves) \/ min_eval < 0
    THEN [val |-> min_eval, n |-> n, calls |-> calls, tried |-> tried]
    ELSE With(expectimax(ai, TryMove(board, valid_moves[i]).child, depth - 1,
                         TRUE, n, me),
              LAMBDA eval :
                 expectimax_min_loop(ai, board, valid_moves, i + 1, depth,
                                     Min(min_eval, eval.val), eval.n, me,
                                     calls \o eval.calls,
                                     Append(tried, [move |-> valid_moves[i],
                                                    val  |-> eval.val])))

(* The loop of the optimal-opponent branch; tried is the moves a call was  *)
(* made for so far, each with the value the call returned.                 *)
expectimax_min_loop(ai, board, valid_moves, i, depth, min_eval, n, me, calls, tried) ==
    IF i > Len(valid_moves)
    THEN [val |-> min_eval, n |-> n, calls |-> calls, tried |-> tried]
    ELSE With(expectimax(ai, TryMove(board, valid_moves[i]).child, depth - 1,
                         TRUE, n, me),
              LAMBDA eval :
                 expectimax_min_loop(ai, board, valid_moves, i + 1, depth,
                                     Min(min_eval, eval.val), eval.n, me,
                                     calls \o eval.calls,
                                     Append(tried, [move |-> valid_moves[i],
                                                    val  |-> eval.val])))

(* variant: the call made on a pass keeps the maximizing flag *)
expectimax_pass_keeps_flag(ai, board, depth, maximizing, n, from) ==
    LET valid_moves == get_valid_moves(board)
        me == Caller(depth, maximizing, from.level + 1, FALSE)
    IN
    IF depth = 0
    THEN [val   |-> expectimax_evaluate_board(ai.color, board), n |-> n,
          calls |-> <<Entry(board, depth, maximizing, from, FALSE, board)>>]
    ELSE IF valid_moves = <<>>
    THEN LET passed == [board EXCEPT !.current_player = opposite_color(board)]
         IN  IF get_valid_moves(passed) = <<>>
             THEN [val   |-> expectimax_evaluate_board(ai.color, passed),
                   n     |-> n,
                   calls |-> <<Entry(board, depth, maximizing, from, FALSE, passed)>>]
             ELSE With(expectimax(ai, passed, depth - 1, maximizing, n,
                                  Caller(depth, maximizing, from.level + 1, TRUE)),
                       LAMBDA sub :
                          [val   |-> sub.val, n |-> sub.n,
                           calls |-> <<Entry(board, depth, maximizing, from, FALSE, NoBoard)>>
                                        \o sub.calls])
    ELSE IF maximizing
    THEN expectimax_max_loop(ai, board, valid_moves, 1, depth, 0 - Inf, n, me,
                             <<Entry(board, depth, maximizing, from, TRUE, NoBoard)>>)
    ELSE IF Draw(ai.tape, n).u < ai.opponent_randomness
    THEN LET move_weights ==
                 [i \in 1 .. Len(valid_moves) |->
                     expectimax_position_weights
                         [valid_moves[i][1] + 1][valid_moves[i][2] + 1]]
             total_weight == SumSeq(move_weights, 1)
             move == valid_moves[(Draw(ai.tape, n).k % Len(valid_moves)) + 1]
         IN  With(expectimax(ai, TryMove(board, move).child, depth - 1,
                             TRUE, n + 1, me),
                  LAMBDA sub :
                     [val   |-> sub.val, n |-> sub.n,
                      calls |-> <<ChanceEntry(board, depth, maximizing, from,
                                     ChanceNode(Draw(ai.tape, n).u,
                                                ai.opponent_randomness,
                                                valid_moves,
                                                <<[move |-> move,
                                                   val  |-> sub.val]>>,
                                                sub.val))>>
                                   \o sub.calls])
    ELSE With(expectimax_min_loop(ai, board, valid_moves, 1, depth, Inf, n + 1,
                                  me, <<>>, <<>>),
              LAMBDA min :
                 [val   |-> min.val, n |-> min.n,
                  calls |-> <<ChanceEntry(board, depth, maximizing, from,
                                 ChanceNode(Draw(ai.tape, n).u,
                                            ai.opponent_randomness,
                                            valid_moves, min.tried,
                                            min.val))>>
                               \o min.calls])

expectimax(ai, board, depth, maximizing, n, from) ==
    LET valid_moves == get_valid_moves(board)
        me == Caller(depth, maximizing, from.level + 1, FALSE)
    IN
    IF depth = 0
    THEN [val   |-> expectimax_evaluate_board(ai.color, board), n |-> n,
          calls |-> <<Entry(board, depth, maximizing, from, FALSE, board)>>]
    ELSE IF valid_moves = <<>>
    THEN LET passed == [board EXCEPT !.current_player = opposite_color(board)]
         IN  IF get_valid_moves(passed) = <<>>
             THEN [val   |-> expectimax_evaluate_board(ai.color, passed),
                   n     |-> n,
                   calls |-> <<Entry(board, depth, maximizing, from, FALSE, passed)>>]
             ELSE With(expectimax(ai, passed, depth - 1, ~maximizing, n,
                                  Caller(depth, maximizing, from.level + 1, TRUE)),
                       LAMBDA sub :
                          [val   |-> sub.val, n |-> sub.n,
                           calls |-> <<Entry(board, depth, maximizing, from, FALSE, NoBoard)>>
                                        \o sub.calls])
    ELSE IF maximizing
    THEN expectimax_max_loop(ai, board, valid_moves, 1, depth, 0 - Inf, n, me,
                             <<Entry(board, depth, maximizing, from, TRUE, NoBoard)>>)
    ELSE IF Draw(ai.tape, n).u < ai.opponent_randomness
    THEN LET move_weights ==
                 [i \in 1 .. Len(valid_moves) |->
                     expectimax_position_weights
                         [valid_moves[i][1] + 1][valid_moves[i][2] + 1]]
             total_weight == SumSeq(move_weights, 1)
             move == valid_moves[(Draw(ai.tape, n).k % Len(valid_moves)) + 1]
         IN  With(expectimax(ai, TryMove(board, move).child, depth - 1,
                             TRUE, n + 1, me),
                  LAMBDA sub :
                     [val   |-> sub.val, n |-> sub.n,
                      calls |-> <<ChanceEntry(board, depth, maximizing, from,
                                     ChanceNode(Draw(ai.tape, n).u,
                                                ai.opponent_randomness,
                                                valid_moves,
                                                <<[move |-> move,
                                                   val  |-> sub.val]>>,
                                                sub.val))>>
                                   \o sub.calls])
    ELSE With(expectimax_min_loop(ai, board, valid_moves, 1, depth, Inf, n + 1,
                                  me, <<>>, <<>>),
              LAMBDA min :
                 [val   |-> min.val, n |-> min.n,
                  calls |-> <<ChanceEntry(board, depth, maximizing, from,
                                 ChanceNode(Draw(ai.tape, n).u,
                                            ai.opponent_randomness,
                                            valid_moves, min.tried,
                                            min.val))>>
                               \o min.calls])

RECURSIVE expectimax_root_loop(_, _, _, _, _, _, _, _)
expectimax_root_loop(ai, board, valid_moves, i, best_score, best_move, n, calls) ==
    IF i > Len(valid_moves)
    THEN [move |-> best_move, b |-> board, calls |-> calls]
    ELSE With(expectimax(ai, TryMove(board, valid_moves[i]).child,
                         MAX_DEPTH - 1, FALSE, n, GetMoveCaller),
              LAMBDA score :
                 LET better == score.val > best_score IN
                 expectimax_root_loop(ai, TryMove(board, valid_moves[i]).board,
                                      valid_moves, i + 1,
                                      IF better THEN score.val ELSE best_score,
                                      IF better THEN valid_moves[i] ELSE best_move,
                                      score.n, calls \o score.calls))

(* ExpectimaxAI.get_move: the returned move, the board afterwards and the  *)
(* calls of _expectimax made.                                              *)
expectimax_get_move(ai, board) ==
    LET valid_moves == get_valid_moves(board) IN
    IF valid_moves = <<>>
    THEN [move |-> NoneMove, b |-> board, calls |-> <<>>]
    ELSE expectimax_root_loop(ai, board, Prioritized(valid_moves), 1,
                              0 - Inf, NoneMove, 0, <<>>)

-----------------------------------------------------------------------------
(* ai/mcts_ai.py.  The tree is the sequence of its nodes in the order of   *)
(* their creation, the root first; a node names its parent and children by *)
(* their place in it (parent 0 is None).  wins is a sum of 1.0 and 0.0, an *)
(* integer.  random.choice() and random.choices() read the tape: the draw  *)
(* k returns the element k mod length of the list (every weight of the     *)
(* table is positive, so random.choices() can return every element).       *)

mcts_position_weights ==
    [r \in 1 .. BOARD_SIZE |-> [c \in 1 .. BOARD_SIZE |->
        IF InSeq(<<r - 1, c - 1>>, corners) THEN 1000
        ELSE IF r - 1 \in {0, BOARD_SIZE - 1} \/ c - 1 \in {0, BOARD_SIZE - 1}
             THEN 10
        ELSE 5]]

(* exploration_weight, times ten *)
exploration_weight == 14

(* The scale uct values are carried in. *)
Micro == 1000000

(* SqrtLogTable[N][n] is math.sqrt(math.log(N) / n) in millionths, rounded *)
(* down, for the visit counts the search can reach.                        *)
SqrtLogTable ==
    << <<0, 0, 0, 0, 0, 0, 0>>,
       <<832554, 588705, 480675, 416277, 372329, 339888, 314676>>,
       <<1048147, 741151, 605147, 524073, 468745, 427904, 396162>>,
       <<1177410, 832554, 679777, 588705, 526553, 480675, 445019>>,
       <<1268636, 897061, 732447, 634318, 567351, 517918, 479499>>,
       <<1338566, 946509, 772821, 669283, 598625, 546467, 505930>>,
       <<1394958, 986384, 805379, 697479, 623844, 569489, 527244>> >>

MCTSNode(board, parent, move) ==
    [board |-> board, parent |-> parent, move |-> move, children |-> <<>>,
     visits |-> 0, wins |-> 0, untried_moves |-> get_valid_moves(board)]

Choice(seq, k) == seq[(k % Len(seq)) + 1]

(* uct(child) of _select_uct, in millionths *)
uct(tree, node, child) ==
    LET c == tree[child] IN
    IF c.visits = 0 THEN Inf
    ELSE LET exploitation   == (c.wins * Micro) \div c.visits
             exploration    == SqrtLogTable[tree[node].visits][c.visits]
             position_bonus ==
                 IF c.move # NoneMove
                 THEN mcts_position_weights[c.move[1] + 1][c.move[2] + 1]
                         * (Micro \div 100)
                 ELSE 0
         IN  exploitation + (exploration_weight * exploration) \div 10
             + position_bonus

(* max(node.children, key=uct): the first child of the greatest key *)
select_uct(tree, node) ==
    LET ch == tree[node].children
        i  == CHOOSE i \in 1 .. Len(ch) :
                 /\ \A j \in 1 .. Len(ch) :
                       uct(tree, node, ch[j]) <= uct(tree, node, ch[i])
                 /\ \A j \in 1 .. i - 1 :
                       uct(tree, node, ch[j]) < uct(tree, node, ch[i])
    IN  ch[i]

RECURSIVE select(_, _)
select(tree, node) ==
    IF tree[node].untried_moves = <<>> /\ tree[node].children # <<>>
    THEN select(tree, select_uct(tree, node))
    ELSE node

(* list.remove(move) *)
Remove(seq, x) == SelectSeq(seq, LAMBDA y : y # x)

(* _expand: the tree with the new child, the child, the draws made *)
expand(ai, tree, node, n) ==
    LET untried      == tree[node].untried_moves
        corner_moves == SelectSeq(untried, IsCornerMove)
        edge_moves   == SelectSeq(untried, IsEdgeMove)
        other_moves  == SelectSeq(untried, LAMBDA m : ~IsCornerMove(m)
                                                      /\ ~IsEdgeMove(m))
        move  == IF corner_moves # <<>>
                 THEN Choice(corner_moves, Draw(ai.tape, n).k)
                 ELSE IF edge_moves # <<>>
                 THEN Choice(edge_moves, Draw(ai.tape, n).k)
                 ELSE Choice(other_moves, Draw(ai.tape, n).k)
        try   == TryMove(tree[node].board, move)
        child == Len(tree) + 1
    IN  [tree |-> Append([tree EXCEPT ![node].untried_moves = Remove(untried, move),
                                      ![node].board = try.board,
                                      ![node].children = Append(@, child)],
                         MCTSNode(try.child, node, move)),
         node |-> child,
         n    |-> n + 1]

(* What _simulate returns where the game is over (1.0 and 0.0 as 1 and 0). *)
(* variant: equal piece counts are a win *)
simulate_result_tie_wins(color, board) ==
    LET black_score == get_score(board)[1]
        white_score == get_score(board)[2]
    IN  IF color = BLACK
        THEN (IF black_score >= white_score THEN 1 ELSE 0)
        ELSE (IF white_score >= black_score THEN 1 ELSE 0)

simulate_result(color, board) ==
    LET black_score == get_score(board)[1]
        white_score == get_score(board)[2]
    IN  IF color = BLACK
        THEN (IF black_score > white_score THEN 1 ELSE 0)
        ELSE (IF white_score > black_score THEN 1 ELSE 0)

(* The playout loop of _simulate on its own board: the result and the      *)
(* draws made.                                                             *)
RECURSIVE playout(_, _, _)
playout(ai, board, n) ==
    LET valid_moves == get_valid_moves(board) IN
    IF valid_moves = <<>>
    THEN LET passed == [board EXCEPT !.current_player = opposite_color(board)]
         IN  IF get_valid_moves(passed) = <<>>
             THEN [result |-> simulate_result(ai.color, passed), n |-> n]
             ELSE With(passed, LAMBDA b : playout(ai, b, n))
    ELSE LET move_weights ==
                 [i \in 1 .. Len(valid_moves) |->
                     mcts_position_weights
                         [valid_moves[i][1] + 1][valid_moves[i][2] + 1]]
             total_weight == SumSeq(move_weights, 1)
             move == Choice(valid_moves, Draw(ai.tape, n).k)
         IN  With(make_move(board, move[1], move[2]).b,
                  LAMBDA moved : playout(ai, moved, n + 1))

simulate(ai, tree, node, n) == playout(ai, CloneValue(tree[node].board), n)

RECURSIVE backpropagate(_, _, _)

(* variant: the walk stops below the root *)
backpropagate_below_root(tree, node, result) ==
    IF node = 0 \/ tree[node].parent = 0 THEN tree
    ELSE backpropagate([tree EXCEPT ![node].visits = @ + 1,
                                    ![node].wins = @ + result],
                       tree[node].parent, result)

backpropagate(tree, node, result) ==
    IF node = 0 THEN tree
    ELSE backpropagate([tree EXCEPT ![node].visits = @ + 1,
                                    ![node].wins = @ + result],
                       tree[node].parent, result)

(* One pass of the loop of get_move, the root being node 1: the tree and *)
(* the draws made after it, the node simulated and the result of its       *)
(* playout.                                                                *)
mcts_iteration(ai, tree, n) ==
    LET n1  == select(tree, 1)
        n2  == IF tree[n1].untried_moves = <<>> /\ tree[n1].children # <<>>
               THEN select(tree, n1) ELSE n1
    IN  With(IF tree[n2].untried_moves # <<>>
             THEN expand(ai, tree, n2, n)
             ELSE [tree |-> tree, node |-> n2, n |-> n],
             LAMBDA ex :
                With(simulate(ai, ex.tree, ex.node, ex.n),
                     LAMBDA sim :
                        [tree |-> backpropagate(ex.tree, ex.node, sim.result),
                         n    |-> sim.n,
                         node |-> ex.node,
                         result |-> sim.result]))

(* The iterations i.. of the loop of get_move. *)
RECURSIVE mcts_iterate(_, _, _, _)
mcts_iterate(ai, tree, i, n) ==
    IF i > ai.iterations THEN tree
    ELSE With(mcts_iteration(ai, tree, n),
              LAMBDA done : mcts_iterate(ai, done.tree, i + 1, done.n))

(* The loop over root.children: win_rate = child.wins / child.visits is    *)
(* compared as a fraction, best_win_rate being wins / visits.              *)
RECURSIVE mcts_best_loop(_, _, _, _, _, _)

(* variant: the most visited child is chosen *)
mcts_best_loop_most_visits(tree, children, i, best_move, wins, visits) ==
    IF i > Len(children) THEN best_move
    ELSE LET child  == tree[children[i]]
             better == best_move = NoneMove \/ child.visits > visits
         IN  mcts_best_loop(tree, children, i + 1,
                            IF better THEN child.move ELSE best_move,
                            IF better THEN child.wins ELSE wins,
                            IF better THEN child.visits ELSE visits)

mcts_best_loop(tree, children, i, best_move, wins, visits) ==
    IF i > Len(children) THEN best_move
    ELSE LET child  == tree[children[i]]
             better == child.wins * visits > wins * child.visits
         IN  mcts_best_loop(tree, children, i + 1,
                            IF better THEN child.move ELSE best_move,
                            IF better THEN child.wins ELSE wins,
                            IF better THEN child.visits ELSE visits)

(* root.children at the end of get_move, in the order of their creation *)
RootChildren(tree) ==
    [i \in 1 .. Len(tree[1].children) |->
        [move   |-> tree[tree[1].children[i]].move,
         wins   |-> tree[tree[1].children[i]].wins,
         visits |-> tree[tree[1].children[i]].visits]]

(* variant: best_win_rate starts at 0 *)
mcts_get_move_rate_from_zero(ai, board) ==
    IF get_valid_moves(board) = <<>>
    THEN [move |-> NoneMove, b |-> board, children |-> <<>>]
    ELSE With(mcts_iterate(ai, <<MCTSNode(board, 0, NoneMove)>>, 1, 0),
              LAMBDA tree :
                 [move |-> mcts_best_loop(tree, tree[1].children, 1,
                                          NoneMove, 0, 1),
                  b    |-> tree[1].board,
                  children |-> RootChildren(tree)])

(* The tree after the iterations of get_move. *)
mcts_search(ai, board) ==
    With(<<MCTSNode(board, 0, NoneMove)>>,
         LAMBDA root : mcts_iterate(ai, root, 1, 0))

(* MCTSAI.get_move: the returned move and the board afterwards. *)
mcts_get_move(ai, board) ==
    IF get_valid_moves(board) = <<>>
    THEN [move |-> NoneMove, b |-> board, children |-> <<>>]
    ELSE With(mcts_search(ai, board),
              LAMBDA tree :
                 [move |-> mcts_best_loop(tree, tree[1].children, 1,
                                          NoneMove, 0 - 1, 1),
                  b    |-> tree[1].board,
                  children |-> RootChildren(tree)])

-----------------------------------------------------------------------------
(* The engines asked for a move (main.py line 69).                         *)

Colours == {BLACK, WHITE}

Empties(o) ==
    Cardinality({m \in Idx \X Idx : View(o).board[m[1]][m[2]] = None})

Searchable(o) == Empties(o) <= MaxEmpty

MinimaxGetMove(o, color) ==
    /\ call.op = "idle"
    /\ Exists(o)
    /\ Empties(o) <= MaxEmptyMinimax
    /\ LET res == minimax_get_move_run(color, View(o), TRUE) IN
       /\ call' = [Record("minimax_get_move", o, 0, 0, res.move)
                     EXCEPT !.arg = <<color>>, !.info = res.calls]
       /\ rows' = StoreRows(o, res.b.board)
       /\ boards' = [boards EXCEPT ![o].current_player = res.b.current_player]
    /\ UNCHANGED <<line, pos, off>>

(* The draws an engine is run with: always the random branch, and the      *)
(* random and the optimal-opponent branch alternating.                     *)
Tapes ==
    { << [u |-> 0, k |-> 1] >>,
      << [u |-> 0, k |-> 0], [u |-> 9, k |-> 0] >> }

(* opponent_randomness (times ten) and tape: 0 with any tape is the        *)
(* exhaustive minimum at every opponent node; 3 is the default 0.3.        *)
Optimal == << [u |-> 9, k |-> 0] >>

(* opponent_randomness of ExpectimaxAI.__init__, times ten *)
opponent_randomness == 3

EngineConfigs ==
    {<<0, Optimal>>} \cup {<<opponent_randomness, tape>> : tape \in Tapes}

ExpectimaxCall(o, color, p, tape) ==
    /\ call.op = "idle"
    /\ Exists(o)
    /\ LET ai  == [color |-> color, opponent_randomness |-> p, tape |-> tape]
           res == expectimax_get_move(ai, View(o))
       IN
       /\ call' = [Record("expectimax_get_move", o, 0, 0, res.move)
                     EXCEPT !.arg = <<color, p, tape>>, !.info = res.calls]
       /\ rows' = StoreRows(o, res.b.board)
       /\ boards' = [boards EXCEPT ![o].current_player = res.b.current_player]
    /\ UNCHANGED <<line, pos, off>>

ExpectimaxGetMove(o, color, p, tape) ==
    /\ Exists(o)
    /\ Searchable(o)
    /\ ExpectimaxCall(o, color, p, tape)

(* The draws an MCTS engine is run with. *)
MCTSTapes ==
    { << [u |-> 0, k |-> 0] >>,
      << [u |-> 0, k |-> 1], [u |-> 0, k |-> 0], [u |-> 0, k |-> 2] >> }

(* The iteration budgets an MCTS engine is constructed with: none, one and *)
(* the greatest.                                                           *)
Iterations == {0, 1, MaxIter}

MCTSGetMove(o, color, iterations, tape) ==
    /\ call.op = "idle"
    /\ Exists(o)
    /\ Searchable(o)
    /\ LET ai  == [color |-> color, iterations |-> iterations, tape |-> tape]
           res == mcts_get_move(ai, View(o))
       IN
       /\ call' = [Record("mcts_get_move", o, 0, 0, res.move)
                     EXCEPT !.arg = <<color, iterations, tape>>,
                            !.info = res.children]
       /\ rows' = StoreRows(o, res.b.board)
       /\ boards' = [boards EXCEPT ![o].current_player = res.b.current_player]
    /\ UNCHANGED <<line, pos, off>>

(* MCTSAI.get_move, one pass of its loop at a time, on a board with a      *)
(* legal move.  call.info holds the tree, the number of draws made, the    *)
(* number of passes completed and, of the last pass, the tree before it,   *)
(* the node simulated and the result of its playout.  The root's board is  *)
(* the object o itself.                                                    *)
MCTSBegin(o, color, iterations, tape) ==
    /\ call.op = "idle"
    /\ Exists(o)
    /\ Empties(o) <= MaxEmptyMCTS
    /\ get_valid_moves(View(o)) # <<>>
    /\ call' = [Record("mcts", o, 0, 0, NoneMove)
                  EXCEPT !.arg = <<color, iterations, tape>>,
                         !.info = [tree |-> <<MCTSNode(View(o), 0, NoneMove)>>,
                                   n |-> 0, completed |-> 0, before |-> <<>>,
                                   node |-> 0, result |-> 0]]
    /\ UNCHANGED <<rows, boards, line, pos, off>>

MCTSIteration ==
    /\ call.op = "mcts"
    /\ call.info.completed < call.arg[2]
    /\ LET ai   == [color |-> call.arg[1], iterations |-> call.arg[2],
                    tape |-> call.arg[3]]
           pass == mcts_iteration(ai, call.info.tree, call.info.n)
       IN
       /\ call' = [call EXCEPT
                     !.info = [tree |-> pass.tree, n |-> pass.n,
                               completed |-> call.info.completed + 1,
                               before |-> call.info.tree,
                               node |-> pass.node, result |-> pass.result]]
       /\ rows' = StoreRows(call.target, pass.tree[1].board.board)
       /\ boards' = [boards EXCEPT ![call.target].current_player =
                                      pass.tree[1].board.current_player]
    /\ UNCHANGED <<line, pos, off>>

(* The loop over root.children after the last pass: get_move has returned. *)
MCTSFinish ==
    /\ call.op = "mcts"
    /\ call.info.completed = call.arg[2]
    /\ call' = [call EXCEPT
                  !.op = "mcts_get_move",
                  !.ret = mcts_best_loop(call.info.tree,
                                         call.info.tree[1].children, 1,
                                         NoneMove, 0 - 1, 1),
                  !.info = RootChildren(call.info.tree)]
    /\ UNCHANGED <<rows, boards, line, pos, off>>

(* _simulate of an engine of `color`, one pass of its loop at a time, on a  *)
(* node whose board is object o.  The local board is the object "clone";  *)
(* call.info holds where the playout is ("loop", then "over"), the number  *)
(* of make_move calls made, whether each returned True, the number of      *)
(* toggles of current_player since the last make_move, the number of       *)
(* passes of the loop begun and the element random.choices() returned at   *)
(* each draw.  A draw can return every        *)
(* element of valid_moves (every weight is positive).                      *)
SimulateBegin(o, color) ==
    /\ call.op = "idle"
    /\ Exists(o)
    /\ ~Exists("clone")
    /\ LET res == clone(o) IN
       /\ boards' = [boards EXCEPT !["clone"] = res.obj]
       /\ rows' = res.rows
    /\ call' = [Record("simulate", o, 0, 0, 0)
                  EXCEPT !.arg = <<color>>,
                         !.info = [at |-> "loop", placements |-> 0,
                                   made |-> TRUE, toggles |-> 0,
                                   passes |-> 0, choices |-> <<>>]]
    /\ UNCHANGED <<line, pos, off>>

(* variant: the playout ends as soon as the player to move has no move *)
SimulateStep_over_at_first_toggle ==
    /\ call.op = "simulate"
    /\ call.info.at = "loop"
    /\ LET board       == View("clone")
           valid_moves == get_valid_moves(board)
           passed      == [board EXCEPT !.current_player = opposite_color(board)]
       IN
       IF valid_moves = <<>>
       THEN /\ boards' = [boards EXCEPT
                             !["clone"].current_player = passed.current_player]
            /\ rows' = rows
            /\ call' = [call EXCEPT
                          !.ret = simulate_result(call.arg[1], passed),
                          !.info.at = "over",
                          !.info.toggles = @ + 1,
                          !.info.passes = @ + 1]
       ELSE \E k \in 1 .. Len(valid_moves) :
               LET move == valid_moves[k]
                   res  == make_move(board, move[1], move[2])
               IN  /\ rows' = StoreRows("clone", res.b.board)
                   /\ boards' = [boards EXCEPT
                                   !["clone"].current_player =
                                       res.b.current_player]
                   /\ call' = [call EXCEPT
                                 !.info.placements = @ + 1,
                                 !.info.made = @ /\ res.ret,
                                 !.info.toggles = 0,
                                 !.info.passes = @ + 1,
                                 !.info.choices = Append(@, k - 1)]
    /\ UNCHANGED <<line, pos, off>>

SimulateStep ==
    /\ call.op = "simulate"
    /\ call.info.at = "loop"
    /\ LET board       == View("clone")
           valid_moves == get_valid_moves(board)
           passed      == [board EXCEPT !.current_player = opposite_color(board)]
       IN
       IF valid_moves = <<>>
       THEN /\ boards' = [boards EXCEPT
                             !["clone"].current_player = passed.current_player]
            /\ rows' = rows
            /\ IF get_valid_moves(passed) = <<>>
               THEN call' = [call EXCEPT
                               !.ret = simulate_result(call.arg[1], passed),
                               !.info.at = "over",
                               !.info.toggles = @ + 1,
                               !.info.passes = @ + 1]
               ELSE call' = [call EXCEPT !.info.toggles = @ + 1,
                                         !.info.passes = @ + 1]
       ELSE \E k \in 1 .. Len(valid_moves) :
               LET move == valid_moves[k]
                   res  == make_move(board, move[1], move[2])
               IN  /\ rows' = StoreRows("clone", res.b.board)
                   /\ boards' = [boards EXCEPT
                                   !["clone"].current_player =
                                       res.b.current_player]
                   /\ call' = [call EXCEPT
                                 !.info.placements = @ + 1,
                                 !.info.made = @ /\ res.ret,
                                 !.info.toggles = 0,
                                 !.info.passes = @ + 1,
                                 !.info.choices = Append(@, k - 1)]
    /\ UNCHANGED <<line, pos, off>>

(* _simulate returns: its local board is dropped. *)
SimulateReturn ==
    /\ call.op = "simulate"
    /\ call.info.at = "over"
    /\ call' = Idle
    /\ boards' = [boards EXCEPT !["clone"] = Absent]
    /\ rows' = [id \in RowIds |->
                  IF id >= BOARD_SIZE THEN [c \in Idx |-> None] ELSE rows[id]]
    /\ UNCHANGED <<line, pos, off>>

(* The position of the full reference game from which the engines are      *)
(* explored: eight cells are empty, White is to move.                      *)
EndgameStart == Len(FullGame) - 8

EndgameBoard ==
    LET B == BLACK
        W == WHITE
        E == None
        grid ==
          << << B, B, B, B, B, B, W, E >>,
             << W, B, B, B, B, B, W, E >>,
             << W, B, W, B, W, W, B, W >>,
             << W, B, W, B, W, B, B, B >>,
             << W, W, W, W, W, B, B, W >>,
             << E, B, W, W, W, W, W, W >>,
             << B, B, B, B, B, B, W, W >>,
             << E, E, E, E, B, B, E, W >> >>
    IN  [board |-> [r \in Idx |-> [c \in Idx |-> grid[r + 1][c + 1]]],
         current_player |-> WHITE]

(* EndgameBoard is the position the full reference game reaches. *)
EndgameReached ==
    (line = 2 /\ pos = EndgameStart /\ off = 0) => View("orig") = EndgameBoard

EndgameReachedWitness ==
    line = 2 /\ pos = EndgameStart /\ off = 0 /\ View("orig") = EndgameBoard

InitAI ==
    /\ rows = [id \in RowIds |->
                 IF id < BOARD_SIZE THEN EndgameBoard.board[id]
                 ELSE [c \in Idx |-> None]]
    /\ boards = [o \in Objs |->
                   IF o = "orig"
                   THEN [board |-> [r \in Idx |-> r],
                         current_player |-> EndgameBoard.current_player]
                   ELSE Absent]
    /\ call = Idle
    /\ line = 2
    /\ pos = EndgameStart
    /\ off = 0

NextAI ==
    \/ \E o \in Objs, row \in Idx, col \in Idx : MakeMove(o, row, col)
    \/ \E o \in Objs : TogglePlayer(o)
    \/ \E o \in Objs : GetValidMoves(o)
    \/ \E o \in Objs, color \in Colours : MinimaxGetMove(o, color)
    \/ \E o \in Objs, color \in Colours, tape \in Tapes :
          ExpectimaxGetMove(o, color, opponent_randomness, tape)
    \/ \E o \in Objs, color \in Colours, iterations \in Iterations,
          tape \in MCTSTapes :
          MCTSGetMove(o, color, iterations, tape)
    \/ Return

SpecAI == InitAI /\ [][NextAI]_vars

(* The expectimax engine asked late in the full reference game: four cells *)
(* are empty and White is to move, so an opponent node below the root has  *)
(* several replies to choose from.                                         *)
ChanceStart == Len(FullGame) - 4

ChanceBoard ==
    LET B == BLACK
        W == WHITE
        E == None
        grid ==
          << << B, B, B, B, B, B, B, B >>,
             << W, B, B, B, B, B, B, E >>,
             << W, B, W, B, W, B, B, W >>,
             << W, B, W, B, B, B, B, B >>,
             << W, W, W, B, W, B, B, W >>,
             << E, W, B, W, W, W, B, W >>,
             << B, W, W, W, B, B, B, W >>,
             << E, W, W, E, B, B, B, W >> >>
    IN  [board |-> [r \in Idx |-> [c \in Idx |-> grid[r + 1][c + 1]]],
         current_player |-> WHITE]

(* ChanceBoard is the position the full reference game reaches. *)
ChanceReached ==
    (line = 2 /\ pos = ChanceStart /\ off = 0) => View("orig") = ChanceBoard

ChanceReachedWitness ==
    line = 2 /\ pos = ChanceStart /\ off = 0 /\ View("orig") = ChanceBoard

InitChance ==
    /\ rows = [id \in RowIds |->
                 IF id < BOARD_SIZE THEN ChanceBoard.board[id]
                 ELSE [c \in Idx |-> None]]
    /\ boards = [o \in Objs |->
                   IF o = "orig"
                   THEN [board |-> [r \in Idx |-> r],
                         current_player |-> ChanceBoard.current_player]
                   ELSE Absent]
    /\ call = Idle
    /\ line = 2
    /\ pos = ChanceStart
    /\ off = 0

NextChance ==
    \/ \E o \in Objs, row \in Idx, col \in Idx : MakeMove(o, row, col)
    \/ \E o \in Objs : TogglePlayer(o)
    \/ \E o \in Objs : GetValidMoves(o)
    \/ \E o \in Objs, color \in Colours, cfg \in EngineConfigs :
          ExpectimaxCall(o, color, cfg[1], cfg[2])
    \/ Return

SpecChance == InitChance /\ [][NextChance]_vars

-----------------------------------------------------------------------------
(* main.py: the game loop.  game_over, the local variable of main(), is    *)
(* kept in call.info with what the last step of the loop did: whether the  *)
(* AI was asked and which branch of `if ai_move` was taken.  The human     *)
(* (Black) clicks any cell at any time; the AI (White) is asked when its   *)
(* delay has passed                                                        *)
(* and answers as get_move does: None when there is no legal move, a legal *)
(* move otherwise.                                                         *)

game_over == call.info.game_over

MainOps == {"main", "click", "ai_turn"}

MainRecord(name, row, col, ret, over, asked, branch) ==
    [Record(name, "orig", row, col, ret)
        EXCEPT !.info = [game_over |-> over, asked |-> asked,
                         branch |-> branch]]

(* variant: the turn is not passed when the next player has no move *)
after_move_no_pass(board, over) ==
    [b |-> board, game_over |-> over]

(* `if not board.get_valid_moves(): ...` after a move (lines 61-64 and     *)
(* 74-77): the board and game_over afterwards.                             *)
after_move(board, over) ==
    IF get_valid_moves(board) = <<>>
    THEN LET passed == [board EXCEPT !.current_player = opposite_color(board)]
         IN  [b |-> passed,
              game_over |-> IF get_valid_moves(passed) = <<>> THEN TRUE ELSE over]
    ELSE [b |-> board, game_over |-> over]

(* A move of the loop follows the reference game, with the pass the loop   *)
(* makes after it, or spends one unit of the exploration budget.           *)
MainSpend(step, passed) ==
    IF OnLine("orig", step)
    THEN /\ off' = off
         /\ pos' = IF passed /\ pos + 1 < Len(Game) /\ Game[pos + 2] = Pass
                   THEN pos + 2 ELSE pos + 1
    ELSE off < MaxOff /\ pos' = pos /\ off' = off + 1

(* The MOUSEBUTTONDOWN branch of the event loop (lines 54-64) for a click   *)
(* that makes a move; every other click changes nothing, a stuttering      *)
(* step.                                                                   *)
HumanClick(row, col) ==
    /\ call.op \in MainOps
    /\ ~game_over
    /\ View("orig").current_player = BLACK
    /\ \E res \in {make_move(View("orig"), row, col)} :
       /\ res.ret
       /\ \E after \in {after_move(res.b, game_over)} :
             /\ rows' = StoreRows("orig", after.b.board)
             /\ boards' = [boards EXCEPT
                              !["orig"].current_player = after.b.current_player]
             /\ call' = MainRecord("click", row, col, TRUE, after.game_over,
                                   FALSE, "")
             /\ MainSpend(<<row, col>>,
                          after.b.current_player # res.b.current_player)
    /\ UNCHANGED line

(* The AI's turn (lines 67-83), its delay having passed. *)
AITurn ==
    /\ call.op \in MainOps
    /\ View("orig").current_player = WHITE
    /\ ~game_over
    /\ \E board \in {View("orig")} :
       \E valid_moves \in {get_valid_moves(board)},
          passed \in {[board EXCEPT !.current_player = opposite_color(board)]} :
       IF valid_moves # <<>>
       THEN \E k \in 1 .. Len(valid_moves) :
               \E res \in {make_move(board, valid_moves[k][1],
                                     valid_moves[k][2])},
                  ai_move \in {valid_moves[k]} :
               \E after \in {after_move(res.b, game_over)} :
                   /\ rows' = StoreRows("orig", after.b.board)
                   /\ boards' = [boards EXCEPT
                                   !["orig"].current_player =
                                       after.b.current_player]
                   /\ call' = MainRecord("ai_turn", ai_move[1], ai_move[2],
                                         res.ret, after.game_over, TRUE, "move")
                   /\ MainSpend(ai_move,
                                after.b.current_player # res.b.current_player)
       ELSE /\ boards' = [boards EXCEPT
                             !["orig"].current_player = passed.current_player]
            /\ call' = MainRecord("ai_turn", 0, 0, FALSE,
                                  IF get_valid_moves(passed) = <<>>
                                  THEN TRUE ELSE game_over,
                                  TRUE, "none")
            /\ UNCHANGED <<rows, pos, off>>
    /\ UNCHANGED line

(* main() before its loop: a new board, game_over = False. *)
InitMain ==
    /\ rows = [id \in RowIds |->
                 IF id < BOARD_SIZE THEN NewBoard.board[id]
                 ELSE [c \in Idx |-> None]]
    /\ boards = [o \in Objs |->
                   IF o = "orig"
                   THEN [board |-> [r \in Idx |-> r], current_player |-> BLACK]
                   ELSE Absent]
    /\ call = [Idle EXCEPT !.op = "main",
                           !.info = [game_over |-> FALSE, asked |-> FALSE,
                                     branch |-> ""]]
    /\ line \in 1 .. Len(Games)
    /\ pos = 0
    /\ off = 0

NextMain ==
    \/ \E row \in Idx, col \in Idx : HumanClick(row, col)
    \/ AITurn

SpecMain == InitMain /\ [][NextMain]_vars

(* The search tree of the MCTS engine on the positions of the endgame. *)
NextTree ==
    \/ \E o \in Objs, row \in Idx, col \in Idx : MakeMove(o, row, col)
    \/ \E o \in Objs : TogglePlayer(o)
    \/ \E o \in Objs, color \in Colours, iterations \in Iterations,
          tape \in MCTSTapes :
          MCTSBegin(o, color, iterations, tape)
    \/ MCTSIteration
    \/ MCTSFinish
    \/ Return

SpecTree == InitAI /\ [][NextTree]_vars

(* The playouts of the MCTS engine late in the full reference game: six    *)
(* cells are empty, so that a playout can pass the turn between two moves  *)
(* and can end with equal piece counts.                                    *)
PlayoutStart == Len(FullGame) - 6

PlayoutBoard ==
    LET B == BLACK
        W == WHITE
        E == None
        grid ==
          << << B, B, B, B, B, B, B, B >>,
             << W, B, B, B, B, B, B, E >>,
             << W, B, W, B, W, B, B, W >>,
             << W, B, W, B, B, B, B, B >>,
             << W, W, W, B, W, B, B, W >>,
             << E, B, B, W, W, W, W, W >>,
             << B, B, W, W, B, B, W, W >>,
             << E, E, W, E, B, B, E, W >> >>
    IN  [board |-> [r \in Idx |-> [c \in Idx |-> grid[r + 1][c + 1]]],
         current_player |-> WHITE]

(* PlayoutBoard is the position the full reference game reaches. *)
PlayoutBoardReached ==
    (line = 2 /\ pos = PlayoutStart /\ off = 0) => View("orig") = PlayoutBoard

PlayoutBoardReachedWitness ==
    line = 2 /\ pos = PlayoutStart /\ off = 0 /\ View("orig") = PlayoutBoard

InitPlayout ==
    /\ rows = [id \in RowIds |->
                 IF id < BOARD_SIZE THEN PlayoutBoard.board[id]
                 ELSE [c \in Idx |-> None]]
    /\ boards = [o \in Objs |->
                   IF o = "orig"
                   THEN [board |-> [r \in Idx |-> r],
                         current_player |-> PlayoutBoard.current_player]
                   ELSE Absent]
    /\ call = Idle
    /\ line = 2
    /\ pos = PlayoutStart
    /\ off = 0

NextPlayout ==
    \/ \E o \in Objs, row \in Idx, col \in Idx : MakeMove(o, row, col)
    \/ \E o \in Objs : TogglePlayer(o)
    \/ \E o \in Objs, color \in Colours : SimulateBegin(o, color)
    \/ SimulateStep
    \/ SimulateReturn
    \/ Return

SpecPlayout == InitPlayout /\ [][NextPlayout]_vars

-----------------------------------------------------------------------------
(* Vocabulary of the properties, stated without the code's loops.          *)

Cells == Idx \X Idx

Dirs == {d \in (-1 .. 1) \X (-1 .. 1) : d # <<0, 0>>}

Other(colour) == IF colour = BLACK THEN WHITE ELSE BLACK

At(b, m) == b.board[m[1]][m[2]]

Step(m, d, k) == <<m[1] + k * d[1], m[2] + k * d[2]>>

(* From m in direction d: k-1 cells of the opponent of `colour`, then a    *)
(* cell of `colour`, all inside the grid.                                  *)
CapturesTo(b, colour, m, d, k) ==
    /\ InRange(Step(m, d, k)[1], Step(m, d, k)[2])
    /\ At(b, Step(m, d, k)) = colour
    /\ \A j \in 1 .. k - 1 : At(b, Step(m, d, j)) = Other(colour)

(* The neighbour test is implied by CapturesTo (its j = 1) and only cuts   *)
(* the search short.                                                       *)
CapturingLine(b, colour, m, d) ==
    /\ InRange(Step(m, d, 1)[1], Step(m, d, 1)[2])
    /\ At(b, Step(m, d, 1)) = Other(colour)
    /\ \E k \in 2 .. BOARD_SIZE - 1 : CapturesTo(b, colour, m, d, k)

Legal(b, colour, m) ==
    /\ At(b, m) = None
    /\ \E d \in Dirs : CapturingLine(b, colour, m, d)

(* The cells a move of `colour` on m captures on board b. *)
Captured(b, colour, m) ==
    UNION {{Step(m, dk[1], j) : j \in 1 .. dk[2] - 1} :
             dk \in {x \in Dirs \X (2 .. BOARD_SIZE - 1) :
                        CapturesTo(b, colour, m, x[1], x[2])}}

Occupied(b) == {m \in Cells : At(b, m) # None}

Live == {o \in Objs : Exists(o)}

Called(name) == call.op = name

Pre == call.pre[call.target]

Post == View(call.target)

Arg == <<call.row, call.col>>

-----------------------------------------------------------------------------
(* C1: a freshly constructed board has exactly four occupied cells, White  *)
(* on (3,3) and (4,4), Black on (3,4) and (4,3), Black is the active       *)
(* player, and get_valid_moves() on it returns exactly the moves           *)
(* (2,3), (3,2), (4,5), (5,4).                                             *)
Fresh == pos = 0 /\ off = 0

C1_StartPosition ==
    Fresh =>
        /\ Occupied(View("orig")) = {<<3,3>>, <<4,4>>, <<3,4>>, <<4,3>>}
        /\ At(View("orig"), <<3,3>>) = WHITE /\ At(View("orig"), <<4,4>>) = WHITE
        /\ At(View("orig"), <<3,4>>) = BLACK /\ At(View("orig"), <<4,3>>) = BLACK
        /\ get_score(View("orig")) = <<2, 2>>
        /\ View("orig").current_player = BLACK
        /\ Called("get_valid_moves") =>
              /\ Len(call.ret) = 4
              /\ {call.ret[i] : i \in 1 .. Len(call.ret)}
                    = {<<2,3>>, <<3,2>>, <<4,5>>, <<5,4>>}

C1_Witness ==
    /\ Fresh
    /\ Called("get_valid_moves")
    /\ call.target = "orig"
    /\ Len(call.ret) = 4

(* C2: is_valid_move(row, col) is true exactly when the cell is empty and  *)
(* some direction has a capturing line for the active player.              *)
C2_ValidIffCapturingLine ==
    /\ Called("make_move") =>
          /\ is_valid_move(Pre, call.row, call.col)
                <=> Legal(Pre, Pre.current_player, Arg)
          /\ call.ret <=> Legal(Pre, Pre.current_player, Arg)
    /\ Called("get_valid_moves") =>
          \A m \in Cells :
              (\E i \in 1 .. Len(call.ret) : call.ret[i] = m)
                <=> Legal(Pre, Pre.current_player, m)

(* a position with a legal move capturing a run of two or more, and an     *)
(* empty cell next to an opponent piece that is not a legal move           *)
C2_Witness ==
    LET b == Pre IN
    /\ Called("get_valid_moves")
    /\ \E m \in Cells : \E d \in Dirs : \E k \in 3 .. BOARD_SIZE - 1 :
          /\ is_valid_move(b, m[1], m[2])
          /\ CapturesTo(b, b.current_player, m, d, k)
    /\ \E m \in Cells : \E d \in Dirs :
          /\ At(b, m) = None
          /\ InRange(Step(m, d, 1)[1], Step(m, d, 1)[2])
          /\ At(b, Step(m, d, 1)) = Other(b.current_player)
          /\ ~is_valid_move(b, m[1], m[2])

(* C3: a successful make_move(row, col) sets the target cell to the        *)
(* mover's colour, recolours exactly the opponent cells on capturing lines *)
(* of the pre-move board, leaves every other cell unchanged and switches   *)
(* current_player to the opponent, also when that opponent has no move.    *)
C3_MakeMoveEffect ==
    (Called("make_move") /\ call.ret = TRUE) =>
        LET mover == Pre.current_player
            taken == Captured(Pre, mover, Arg)
        IN
        /\ Legal(Pre, mover, Arg)
        /\ \A x \in Cells :
              At(Post, x) =
                 IF x = Arg \/ x \in taken THEN mover ELSE At(Pre, x)
        /\ \A x \in taken : At(Pre, x) = Other(mover)
        /\ Post.current_player = Other(mover)

(* a move that captured along two or more directions and left the          *)
(* opponent, now the active player, without a legal move                   *)
C3_Witness ==
    /\ Called("make_move") /\ call.ret = TRUE
    /\ Cardinality({d \in Dirs :
           CapturingLine(Pre, Pre.current_player, Arg, d)}) >= 2
    /\ get_valid_moves(Post) = <<>>
    /\ Post.current_player = Other(Pre.current_player)

(* C4: make_move on an illegal move (an occupied cell, or an empty cell    *)
(* with no capturing line) returns False and changes no cell and no        *)
(* current_player.                                                         *)
C4_IllegalMoveRejected ==
    (Called("make_move") /\ ~Legal(Pre, Pre.current_player, Arg)) =>
        /\ call.ret = FALSE
        /\ Snapshot = call.pre

(* a rejected move on an empty cell next to an opponent piece *)
C4_Witness ==
    /\ Called("make_move") /\ call.ret = FALSE
    /\ At(Pre, Arg) = None
    /\ \E d \in Dirs :
          /\ InRange(Step(Arg, d, 1)[1], Step(Arg, d, 1)[2])
          /\ At(Pre, Step(Arg, d, 1)) = Other(Pre.current_player)

(* C5: make_move either returns True and the total piece count has grown  *)
(* by exactly 1, the mover gaining at least 2 and the opponent losing at   *)
(* least 1, or returns False with no state change; no call ever lowers the *)
(* total piece count or empties an occupied cell.                          *)
Total(b) == Count(b, BLACK) + Count(b, WHITE)

C5_PieceCount ==
    /\ Called("make_move") =>
          IF call.ret
          THEN LET mover == Pre.current_player IN
               /\ Total(Post) = Total(Pre) + 1
               /\ Count(Post, mover) >= Count(Pre, mover) + 2
               /\ Count(Post, Other(mover)) <= Count(Pre, Other(mover)) - 1
          ELSE Snapshot = call.pre
    /\ (~Called("idle") /\ Post # Pre) =>
          /\ Total(Post) >= Total(Pre)
          /\ Occupied(Pre) \subseteq Occupied(Post)

(* a successful move that captured three or more pieces *)
C5_Witness ==
    /\ Called("make_move") /\ call.ret = TRUE
    /\ Count(Post, Pre.current_player) >= Count(Pre, Pre.current_player) + 4
    /\ Total(Post) = Total(Pre) + 1

(* C6: make_move(2,3) for Black on the start position succeeds, flips      *)
(* exactly the White piece on (3,3) and leaves Black = 4, White = 1 with   *)
(* White to move.                                                          *)
C6_FirstMove ==
    (Called("make_move") /\ Arg = <<2, 3>> /\ Pre = NewBoard) =>
        /\ call.ret = TRUE
        /\ {x \in Cells : At(Post, x) # At(Pre, x)} = {<<2,3>>, <<3,3>>}
        /\ At(Pre, <<3,3>>) = WHITE /\ At(Post, <<3,3>>) = BLACK
        /\ At(Post, <<2,3>>) = BLACK
        /\ get_score(Post) = <<4, 1>>
        /\ Post.current_player = WHITE

C6_Witness ==
    /\ Called("make_move") /\ Arg = <<2, 3>> /\ Pre = NewBoard
    /\ call.ret = TRUE
    /\ get_score(Post) = <<4, 1>>

(* C7: clone() returns a position with equal cells and current_player that *)
(* shares no mutable state with the original: no make_move or              *)
(* current_player toggle on one of the two alters the other.               *)
C7_CloneIndependent ==
    /\ Called("clone") =>
          /\ View("clone") = call.pre["orig"]
          /\ View("orig") = call.pre["orig"]
    /\ (~Called("idle") /\ ~Called("clone")) =>
          \A o \in Live \ {call.target} : View(o) = call.pre[o]

(* a move applied to the clone, and one applied to the original while the  *)
(* clone exists *)
C7_Witness ==
    /\ Called("make_move") /\ call.ret = TRUE
    /\ call.target = "clone"
    /\ View("clone") # View("orig")
    /\ View("orig") = call.pre["orig"]

C7_WitnessOrig ==
    /\ Called("make_move") /\ call.ret = TRUE
    /\ call.target = "orig"
    /\ Exists("clone")
    /\ View("clone") = call.pre["clone"]

(* C8: get_valid_moves(), get_score() and is_game_over() are read-only:    *)
(* every cell and current_player are as before the call (is_game_over      *)
(* never leaves current_player swapped), and a second get_valid_moves()    *)
(* returns the same sequence as the first.                                 *)
Queries == {"get_valid_moves", "get_score", "is_game_over"}

C8_QueriesReadOnly ==
    /\ call.op \in Queries => Snapshot = call.pre
    /\ Called("get_valid_moves") => get_valid_moves(Post) = call.ret

(* is_game_over went through the swap: the active player has no move, the  *)
(* opponent has one *)
C8_Witness ==
    /\ Called("is_game_over")
    /\ get_valid_moves(Pre) = <<>>
    /\ call.ret = FALSE

(* C9: is_game_over() returns True exactly when neither colour, taken as   *)
(* the active player, has a legal move; in particular on every board with  *)
(* all 64 cells occupied.                                                  *)
NoMove(b, colour) == \A m \in Cells : ~Legal(b, colour, m)

C9_GameOverIffNoMoves ==
    Called("is_game_over") =>
        /\ call.ret <=> (NoMove(Pre, BLACK) /\ NoMove(Pre, WHITE))
        /\ Occupied(Pre) = Cells => call.ret = TRUE

(* is_game_over on a full board *)
C9_Witness ==
    /\ Called("is_game_over")
    /\ Occupied(Pre) = Cells
    /\ call.ret = TRUE

(* is_game_over on a terminal board that still has empty cells *)
C9_WitnessNotFull ==
    /\ Called("is_game_over")
    /\ Occupied(Pre) # Cells
    /\ call.ret = TRUE

(* C10: MinimaxAI.get_move and ExpectimaxAI.get_move return None exactly    *)
(* when the active player of the position has no legal move; when there is *)
(* a legal move they return a member of board.get_valid_moves().           *)
GetMoveCalls == {"minimax_get_move", "expectimax_get_move"}

C10_GetMoveNoneIffNoMoves ==
    call.op \in GetMoveCalls =>
        /\ call.ret = NoneMove <=> get_valid_moves(Pre) = <<>>
        /\ call.ret = NoneMove <=> NoMove(Pre, Pre.current_player)
        /\ get_valid_moves(Pre) # <<>> =>
              /\ InSeq(call.ret, get_valid_moves(Pre))
              /\ Legal(Pre, Pre.current_player, call.ret)

(* expectimax, its opponent model taking the random branch on the first    *)
(* draw, returned one of several legal moves, not a corner                 *)
C10_Witness ==
    /\ Called("expectimax_get_move")
    /\ call.arg[2] > 0 /\ call.arg[3][1].u < call.arg[2]
    /\ Len(get_valid_moves(Pre)) >= 2
    /\ InSeq(call.ret, get_valid_moves(Pre))
    /\ ~IsCornerMove(call.ret)

C10_WitnessMinimax ==
    /\ Called("minimax_get_move")
    /\ Len(get_valid_moves(Pre)) >= 2
    /\ InSeq(call.ret, get_valid_moves(Pre))

(* an engine asked on a position whose active player cannot move while the *)
(* opponent can, and on a finished game *)
C10_WitnessNone ==
    /\ call.op \in GetMoveCalls
    /\ call.ret = NoneMove
    /\ ~is_game_over(Pre).ret

C10_WitnessNoneGameOver ==
    /\ call.op \in GetMoveCalls
    /\ call.ret = NoneMove
    /\ is_game_over(Pre).ret

(* C11: MCTSAI.get_move with iterations = 0 returns None only if the       *)
(* position has no legal move: on a position with a legal move it does not *)
(* return None even with an iteration budget of 0.                         *)
C11_ZeroIterationsStillMoves ==
    (Called("mcts_get_move") /\ call.arg[2] = 0) =>
        (call.ret = NoneMove => get_valid_moves(Pre) = <<>>)

(* C12: MCTSAI.get_move with iterations >= 1 on a position with a legal    *)
(* move returns a member of board.get_valid_moves() of that position,      *)
(* whatever the random choices of expansion and playout.                   *)
C12_MCTSReturnsLegalMove ==
    (Called("mcts_get_move") /\ call.arg[2] >= 1
        /\ get_valid_moves(Pre) # <<>>) =>
        /\ InSeq(call.ret, get_valid_moves(Pre))
        /\ Legal(Pre, Pre.current_player, call.ret)

(* a search of several iterations over several legal moves whose draws     *)
(* are not all the first element, returning a move that is not the first   *)
(* legal one and whose playouts the engine lost                            *)
C12_Witness ==
    /\ Called("mcts_get_move")
    /\ call.arg[2] >= 2
    /\ \E i \in 1 .. Len(call.arg[3]) : call.arg[3][i].k # 0
    /\ Len(get_valid_moves(Pre)) >= 2
    /\ InSeq(call.ret, get_valid_moves(Pre))
    /\ call.ret # get_valid_moves(Pre)[1]
    /\ mcts_search([color |-> call.arg[1], iterations |-> call.arg[2],
                    tape |-> call.arg[3]], Pre)[1].wins = 0

(* C13: for each of the three engines get_move(board) leaves the board it  *)
(* was given unchanged: every cell and current_player are as before the    *)
(* call; hypothetical moves, pass toggles and evaluation-time toggles are   *)
(* made on clones only.                                                    *)
Engines == {"minimax_get_move", "expectimax_get_move", "mcts_get_move"}

C13_GetMoveLeavesBoard ==
    call.op \in Engines =>
        /\ Snapshot = call.pre
        /\ Post.current_player = Pre.current_player
        /\ \A x \in Cells : At(Post, x) = At(Pre, x)

(* minimax asked by the colour that is not to move, on a position with     *)
(* several legal moves: the search made moves and its evaluation set       *)
(* current_player on the boards it evaluated                               *)
C13_Witness ==
    /\ Called("minimax_get_move")
    /\ call.arg[1] # Pre.current_player
    /\ Len(get_valid_moves(Pre)) >= 2
    /\ call.ret # NoneMove
    /\ Post = Pre

C13_WitnessExpectimax ==
    /\ Called("expectimax_get_move")
    /\ Len(get_valid_moves(Pre)) >= 2
    /\ call.ret # NoneMove
    /\ Post = Pre

(* an MCTS search that expanded the root, whose board is the given board,  *)
(* more than once *)
C13_WitnessMCTS ==
    /\ Called("mcts_get_move")
    /\ call.arg[2] >= 2
    /\ Len(get_valid_moves(Pre)) >= 2
    /\ call.ret # NoneMove
    /\ Post = Pre

(* The search with its calls written down returns the move of the search  *)
(* without, and leaves the same board.                                     *)
MinimaxRunAgrees ==
    Called("minimax_get_move") =>
        /\ minimax_get_move(call.arg[1], Pre).move = call.ret
        /\ minimax_get_move(call.arg[1], Pre).b = Post

(* C14: MinimaxAI.get_move returns, among all legal moves of the position  *)
(* (tried corners first, then edges, then interior), the move whose        *)
(* depth-bounded subtree value is greatest: no legal move of the position  *)
(* has a subtree value strictly greater than that of the returned move.    *)
C14_ReturnsGreatestSubtreeValue ==
    (Called("minimax_get_move") /\ call.ret # NoneMove) =>
        \A i \in 1 .. Len(get_valid_moves(Pre)) :
            SubtreeValue(call.arg[1], Pre, get_valid_moves(Pre)[i])
               <= SubtreeValue(call.arg[1], Pre, call.ret)

(* C15: for a fixed position and depth, get_move with the `beta <= alpha`  *)
(* breaks enabled selects a move whose exhaustively computed minimax value *)
(* equals that of the move selected with the breaks disabled.              *)
C15_PruningKeepsValue ==
    (Called("minimax_get_move") /\ call.ret # NoneMove) =>
        LET exhaustive == minimax_get_move_run(call.arg[1], Pre, FALSE)
        IN  SubtreeValue(call.arg[1], Pre, call.ret)
               = SubtreeValue(call.arg[1], Pre, exhaustive.move)

(* a search in which a break was taken: with the breaks fewer calls of     *)
(* _minimax are made than without, and more than one move was scored       *)
C15_Witness ==
    /\ Called("minimax_get_move") /\ call.ret # NoneMove
    /\ Len(Prioritized(get_valid_moves(Pre))) >= 2
    /\ Len(call.info)
          < Len(minimax_get_move_run(call.arg[1], Pre, FALSE).calls)

(* C17: once the iterations are spent, MCTSAI.get_move returns the move of *)
(* the child of the root with the highest wins / visits, the child created *)
(* first among those of equal ratio, whatever the visit counts are.  The   *)
(* ratios are compared as fractions: w1 / v1 < w2 / v2 is w1 * v2 < w2 *   *)
(* v1, every child of the root having been visited.                        *)
RateLess(a, b) == a.wins * b.visits < b.wins * a.visits

C17_HighestWinRate ==
    (Called("mcts_get_move") /\ call.info # <<>>) =>
        \E i \in 1 .. Len(call.info) :
            /\ call.ret = call.info[i].move
            /\ \A j \in 1 .. Len(call.info) :
                  /\ call.info[j].visits >= 1
                  /\ ~RateLess(call.info[i], call.info[j])
                  /\ j < i => RateLess(call.info[j], call.info[i])

(* the returned child has been visited less often than another one *)
C17_Witness ==
    /\ Called("mcts_get_move")
    /\ \E i, j \in 1 .. Len(call.info) :
          /\ call.ret = call.info[i].move
          /\ call.info[i].visits < call.info[j].visits
          /\ RateLess(call.info[j], call.info[i])

(* two children of equal ratio, the first created one returned *)
C17_WitnessTie ==
    /\ Called("mcts_get_move")
    /\ \E i, j \in 1 .. Len(call.info) :
          /\ i < j
          /\ call.ret = call.info[i].move
          /\ ~RateLess(call.info[i], call.info[j])
          /\ ~RateLess(call.info[j], call.info[i])

(* C18: every call of _minimax, the one made on a pass included, is made   *)
(* with a depth one less than its caller's and the caller's maximizing     *)
(* flag flipped; the depth never falls below 0, so that the calls below    *)
(* get_move are never nested deeper than MAX_DEPTH.                        *)
C18_DepthDecreases ==
    Called("minimax_get_move") =>
        \A i \in 1 .. Len(call.info) :
            LET e == call.info[i] IN
            /\ e.depth = e.caller_depth - 1
            /\ e.maximizing = ~e.caller_maximizing
            /\ e.depth >= 0
            /\ e.level + e.depth = MAX_DEPTH
            /\ e.level <= MAX_DEPTH

(* a call made on a pass, and in the same search a call at depth 0 *)
C18_Witness ==
    /\ Called("minimax_get_move")
    /\ \E i \in 1 .. Len(call.info) : call.info[i].pass
    /\ \E i \in 1 .. Len(call.info) :
          call.info[i].depth = 0 /\ call.info[i].level = MAX_DEPTH

(* a call on a position where neither player can move: it makes no call *)
C18_WitnessGameOver ==
    /\ Called("minimax_get_move")
    /\ \E i \in 1 .. Len(call.info) :
          /\ call.info[i].depth > 0
          /\ ~call.info[i].enumerates
          /\ \A j \in 1 .. Len(call.info) :
                call.info[j].pass => call.info[j].level # call.info[i].level + 1

(* C19: when get_move is called on a position whose current_player is the  *)
(* engine's colour, every call of _minimax and of _expectimax that          *)
(* enumerates moves has maximizing true exactly when the current_player of *)
(* its board is the engine's colour, calls made after passes included.     *)
C19_MaximizingIsEngineTurn ==
    (/\ call.op \in {"minimax_get_move", "expectimax_get_move"}
     /\ call.arg[1] = Pre.current_player) =>
        \A i \in 1 .. Len(call.info) :
            call.info[i].enumerates =>
                (call.info[i].maximizing <=> call.info[i].player = call.arg[1])

(* a minimax search of the engine's own turn in which a call made on a     *)
(* pass enumerates moves, for either value of the flag in all              *)
C19_Witness ==
    /\ Called("minimax_get_move")
    /\ call.arg[1] = Pre.current_player
    /\ \E i \in 1 .. Len(call.info) :
          call.info[i].pass /\ call.info[i].enumerates
    /\ \E i, j \in 1 .. Len(call.info) :
          /\ call.info[i].enumerates /\ call.info[i].maximizing
          /\ call.info[j].enumerates /\ ~call.info[j].maximizing

C19_WitnessExpectimax ==
    /\ Called("expectimax_get_move")
    /\ call.arg[1] = Pre.current_player
    /\ \E i \in 1 .. Len(call.info) :
          call.info[i].pass /\ call.info[i].enumerates

(* C20: whichever player is to move, the positional term of                *)
(* _evaluate_board is the sum of the weight table over the cells of the    *)
(* engine's colour minus its sum over the cells of the other colour, for   *)
(* every board a search evaluates.                                         *)
RECURSIVE HeldWeight(_, _, _, _)
HeldWeight(colour, board, weights, i) ==
    IF i > Len(AllCells) THEN 0
    ELSE (IF At(board, AllCells[i]) = colour
          THEN weights[AllCells[i][1] + 1][AllCells[i][2] + 1] ELSE 0)
         + HeldWeight(colour, board, weights, i + 1)

C20_PositionalTermIsWeightDifference ==
    /\ Called("minimax_get_move") =>
          \A i \in 1 .. Len(call.info) :
              LET b == call.info[i].evaluated IN
              b # NoBoard =>
                  minimax_position_score(call.arg[1], b)
                      = HeldWeight(call.arg[1], b, minimax_position_weights, 1)
                        - HeldWeight(Other(call.arg[1]), b,
                                     minimax_position_weights, 1)
    /\ Called("expectimax_get_move") =>
          \A i \in 1 .. Len(call.info) :
              LET b == call.info[i].evaluated IN
              b # NoBoard =>
                  expectimax_position_score(call.arg[1], b)
                      = HeldWeight(call.arg[1], b, expectimax_position_weights, 1)
                        - HeldWeight(Other(call.arg[1]), b,
                                     expectimax_position_weights, 1)

(* The term is that difference on the boards whose current_player is the   *)
(* engine's colour, and the sum over the engine's own cells on the others. *)
PositionalTermAsComputed ==
    call.op \in {"minimax_get_move", "expectimax_get_move"} =>
        \A i \in 1 .. Len(call.info) :
            LET b     == call.info[i].evaluated
                w     == IF call.op = "minimax_get_move"
                         THEN minimax_position_weights
                         ELSE expectimax_position_weights
                score == IF call.op = "minimax_get_move"
                         THEN minimax_position_score(call.arg[1], b)
                         ELSE expectimax_position_score(call.arg[1], b)
            IN  b # NoBoard =>
                    score = HeldWeight(call.arg[1], b, w, 1)
                            - (IF b.current_player = call.arg[1]
                               THEN HeldWeight(Other(call.arg[1]), b, w, 1)
                               ELSE 0)

(* C21: whichever player is to move, the mobility term of                  *)
(* MinimaxAI._evaluate_board is twice the number of legal moves of the     *)
(* engine's colour minus the number of legal moves of the other colour,    *)
(* for every board a search evaluates.                                     *)
MovesOf(colour, board) ==
    Len(get_valid_moves([board EXCEPT !.current_player = colour]))

C21_MobilityIsOwnMinusOther ==
    Called("minimax_get_move") =>
        \A i \in 1 .. Len(call.info) :
            LET b == call.info[i].evaluated IN
            b # NoBoard =>
                minimax_mobility_score(call.arg[1], b)
                    = 2 * (MovesOf(call.arg[1], b)
                           - MovesOf(Other(call.arg[1]), b))

(* The term counts the moves of the player to move as the engine's own:    *)
(* it is the claimed one when the engine is to move and its negation       *)
(* otherwise.                                                              *)
MobilityTermAsComputed ==
    Called("minimax_get_move") =>
        \A i \in 1 .. Len(call.info) :
            LET b == call.info[i].evaluated IN
            b # NoBoard =>
                minimax_mobility_score(call.arg[1], b)
                    = 2 * (MovesOf(b.current_player, b)
                           - MovesOf(Other(b.current_player), b))

(* C22: evaluating a position does not change it: after _evaluate_board    *)
(* returns, current_player and every cell of the board are what they were  *)
(* before the call, whichever player is to move, for every board a search  *)
(* of MinimaxAI or ExpectimaxAI evaluates.                                 *)
C22_EvaluateLeavesBoard ==
    call.op \in {"minimax_get_move", "expectimax_get_move"} =>
        \A i \in 1 .. Len(call.info) :
            LET b == call.info[i].evaluated IN
            b # NoBoard =>
                LET after == board_after_evaluate(call.op, call.arg[1], b) IN
                /\ after.current_player = b.current_player
                /\ \A x \in Cells : At(after, x) = At(b, x)

(* The cells are left alone, and current_player is left as the colour of   *)
(* a MinimaxAI, as it was by an ExpectimaxAI.                              *)
EvaluateEffectAsComputed ==
    call.op \in {"minimax_get_move", "expectimax_get_move"} =>
        \A i \in 1 .. Len(call.info) :
            LET b == call.info[i].evaluated IN
            b # NoBoard =>
                LET after == board_after_evaluate(call.op, call.arg[1], b) IN
                /\ after.current_player
                      = IF call.op = "minimax_get_move" THEN call.arg[1]
                        ELSE b.current_player
                /\ \A x \in Cells : At(after, x) = At(b, x)

(* C23: at a chance node with a legal move one call of _expectimax takes   *)
(* one of two branches and never both: when the draw is below              *)
(* opponent_randomness it makes one call, for a legal move, and returns    *)
(* its value; otherwise it makes a call for every legal move and returns   *)
(* the least of their values.  With opponent_randomness = 0 get_move       *)
(* returns the same move whatever the draws are.                           *)
C23_ChanceNodeOneBranch ==
    Called("expectimax_get_move") =>
        /\ \A i \in 1 .. Len(call.info) :
              LET e    == call.info[i]
                  node == e.chance
              IN  (e.enumerates /\ ~e.maximizing) =>
                    /\ node # NoChance
                    /\ node.moves # <<>>
                    /\ node.p = call.arg[2]
                    /\ IF node.u < node.p
                       THEN /\ Len(node.tried) = 1
                            /\ InSeq(node.tried[1].move, node.moves)
                            /\ node.val = node.tried[1].val
                       ELSE /\ Len(node.tried) = Len(node.moves)
                            /\ \A k \in 1 .. Len(node.moves) :
                                  /\ node.tried[k].move = node.moves[k]
                                  /\ node.val <= node.tried[k].val
                            /\ \E k \in 1 .. Len(node.moves) :
                                  node.val = node.tried[k].val
        /\ call.arg[2] = 0 =>
              \A tape \in Tapes :
                  expectimax_get_move([color |-> call.arg[1],
                                       opponent_randomness |-> 0,
                                       tape |-> tape], Pre).move = call.ret

(* one search with a chance node of each branch, both with a choice of     *)
(* moves, the call of the random branch not being the one of least value   *)
C23_Witness ==
    /\ Called("expectimax_get_move")
    /\ call.arg[2] > 0
    /\ \E i, j \in 1 .. Len(call.info) :
          LET a == call.info[i].chance
              b == call.info[j].chance
          IN  /\ a # NoChance /\ b # NoChance
              /\ a.u < a.p /\ Len(a.moves) >= 2
              /\ b.u >= b.p /\ Len(b.moves) >= 2
              /\ \E k \in 1 .. Len(b.tried) : b.tried[k].val > b.val

(* with 0 < opponent_randomness other draws give another move on the same  *)
(* position                                                                *)
C23_WitnessDraws ==
    /\ Called("expectimax_get_move")
    /\ call.arg[2] > 0
    /\ \E tape \in Tapes :
          expectimax_get_move([color |-> call.arg[1],
                               opponent_randomness |-> call.arg[2],
                               tape |-> tape], Pre).move # call.ret

(* opponent_randomness = 0: every chance node takes the exhaustive branch *)
C23_WitnessOptimal ==
    /\ Called("expectimax_get_move")
    /\ call.arg[2] = 0
    /\ \E i \in 1 .. Len(call.info) :
          call.info[i].chance # NoChance /\ Len(call.info[i].chance.moves) >= 2

(* The cells of a board holding a piece of `colour`. *)
Pieces(colour, board) == Cardinality({m \in Cells : At(board, m) = colour})

(* The greatest number of make_move calls of a game: the cells of the      *)
(* board less the four of the start.                                       *)
MaxPlacements == BOARD_SIZE * BOARD_SIZE - 4

NoMoveFor(colour, board) == \A m \in Cells : ~Legal(board, colour, m)

(* C24: every playout of _simulate ends: each make_move it calls is of a   *)
(* legal move and returns True, so that every placement fills one empty    *)
(* cell and there are at most 60 of them; current_player is never toggled  *)
(* twice without a move in between, a pass of the loop that makes no move  *)
(* being followed by one that does or being the last; and the playout is   *)
(* over only where neither colour has a legal move.                        *)
C24_PlayoutTerminates ==
    Called("simulate") =>
        LET local == View("clone") IN
        /\ call.info.made
        /\ call.info.placements = Len(call.info.choices)
        /\ call.info.placements = Pieces(None, Pre) - Pieces(None, local)
        /\ call.info.placements <= MaxPlacements
        /\ call.info.toggles <= 1
        /\ call.info.passes <= 2 * call.info.placements + 1
        /\ call.info.at = "over" =>
              NoMoveFor(BLACK, local) /\ NoMoveFor(WHITE, local)

C24_Witness ==
    /\ Called("simulate")
    /\ call.info.at = "over"
    /\ call.info.placements >= 3
    /\ call.info.passes > call.info.placements + 2

(* The playout of the engine's search is the same loop: run on the draws   *)
(* a stepwise playout made, it returns the same result.                    *)
PlayoutAgrees ==
    (Called("simulate") /\ call.info.at = "over" /\ call.info.choices # <<>>) =>
        playout([color |-> call.arg[1], iterations |-> 0,
                 tape |-> [i \in 1 .. Len(call.info.choices) |->
                              [u |-> 0, k |-> call.info.choices[i]]]],
                Pre, 0)
          = [result |-> call.ret, n |-> Len(call.info.choices)]

(* C25: a playout returns 1.0 exactly when the engine's colour has         *)
(* strictly more pieces than the other colour in the position it ended in  *)
(* and 0.0 otherwise, whoever is to move there; the board of the node is   *)
(* as it was before the playout.                                           *)
C25_PlayoutResult ==
    Called("simulate") =>
        /\ View(call.target) = Pre
        /\ call.info.at = "over" =>
              LET local == View("clone")
                  mine  == Pieces(call.arg[1], local)
                  other == Pieces(Other(call.arg[1]), local)
              IN  call.ret = IF mine > other THEN 1 ELSE 0

C25_Witness ==
    /\ Called("simulate")
    /\ call.info.at = "over"
    /\ call.info.placements >= 1
    /\ call.ret = 1
    /\ View("clone").current_player = call.arg[1]

C25_WitnessLost ==
    /\ Called("simulate")
    /\ call.info.at = "over"
    /\ call.ret = 0
    /\ Pieces(call.arg[1], View("clone")) < Pieces(Other(call.arg[1]), View("clone"))
    /\ View("clone").current_player # call.arg[1]

C25_WitnessTie ==
    /\ Called("simulate")
    /\ call.info.at = "over"
    /\ call.ret = 0
    /\ Pieces(BLACK, View("clone")) = Pieces(WHITE, View("clone"))

(* The nodes from `node` up to the root. *)
RECURSIVE PathToRoot(_, _)
PathToRoot(tree, node) ==
    IF node = 0 THEN {} ELSE {node} \cup PathToRoot(tree, tree[node].parent)

RECURSIVE SumOver(_, _)
SumOver(f, set) ==
    IF set = {} THEN 0
    ELSE LET x == CHOOSE x \in set : TRUE IN f[x] + SumOver(f, set \ {x})

ChildrenOf(tree, node) == {i \in 1 .. Len(tree) : tree[i].parent = node}

(* C26: a pass of the loop of get_move adds 1 to visits and the result of  *)
(* the playout to wins at every node from the simulated node up to the     *)
(* root and changes the counts of no other node; between passes the root's *)
(* visits are the number of passes completed and the sum of its children's *)
(* visits, every other node has been visited, and wins lie between 0 and   *)
(* visits.                                                                 *)
C26_Backpropagation ==
    Called("mcts") =>
        LET tree   == call.info.tree
            before == call.info.before
            path   == PathToRoot(tree, call.info.node)
            was(i) == IF i <= Len(before)
                      THEN [visits |-> before[i].visits, wins |-> before[i].wins]
                      ELSE [visits |-> 0, wins |-> 0]
        IN
        /\ call.info.completed > 0 =>
              /\ call.info.node \in 1 .. Len(tree)
              /\ 1 \in path
              /\ call.info.result \in {0, 1}
              /\ Len(before) <= Len(tree)
              /\ \A i \in 1 .. Len(tree) :
                    IF i \in path
                    THEN /\ tree[i].visits = was(i).visits + 1
                         /\ tree[i].wins = was(i).wins + call.info.result
                    ELSE /\ tree[i].visits = was(i).visits
                         /\ tree[i].wins = was(i).wins
        /\ tree[1].visits = call.info.completed
        /\ tree[1].visits =
              SumOver([i \in 1 .. Len(tree) |-> tree[i].visits],
                      ChildrenOf(tree, 1))
        /\ \A i \in 2 .. Len(tree) : tree[i].visits >= 1
        /\ \A i \in 1 .. Len(tree) :
              0 <= tree[i].wins /\ tree[i].wins <= tree[i].visits

(* A pass that simulated a grandchild of the root again, its playout won. *)
C26_Witness ==
    /\ Called("mcts")
    /\ call.info.completed >= 2
    /\ call.info.result = 1
    /\ Cardinality(PathToRoot(call.info.tree, call.info.node)) >= 3
    /\ \E i \in 2 .. Len(call.info.tree) :
          i \notin PathToRoot(call.info.tree, call.info.node)

(* A pass that expanded nothing: the node simulated was in the tree. *)
C26_WitnessRevisit ==
    /\ Called("mcts")
    /\ call.info.completed >= 2
    /\ Len(call.info.before) = Len(call.info.tree)

(* Run one pass at a time, get_move returns what it returns in one call. *)
TreeAgrees ==
    (Called("mcts_get_move") /\ Len(call.arg) = 3) =>
        LET res == mcts_get_move([color |-> call.arg[1],
                                  iterations |-> call.arg[2],
                                  tape |-> call.arg[3]], Pre)
        IN  /\ call.ret = res.move
            /\ call.info = res.children
            /\ Post = res.b

(* C27: in the loop of main(), while game_over is False the player to move *)
(* has a legal move, so that the AI is asked only as White with a move to  *)
(* make and answers with a move; game_over is True only where neither      *)
(* colour has a legal move; and once game_over is True it stays True and   *)
(* no step changes the board or current_player.                            *)
C27_GameLoop ==
    /\ [](call.op \in MainOps =>
            LET board == View("orig") IN
            /\ ~game_over => ~NoMoveFor(board.current_player, board)
            /\ game_over => NoMoveFor(BLACK, board) /\ NoMoveFor(WHITE, board)
            /\ call.info.asked =>
                  /\ Pre.current_player = WHITE
                  /\ ~NoMoveFor(WHITE, Pre)
                  /\ call.info.branch = "move"
                  /\ call.ret)
    /\ [][(call.op \in MainOps /\ game_over) =>
            (call'.info.game_over /\ rows' = rows /\ boards' = boards)]_vars

(* The AI moved, Black had no reply and the turn came back to White. *)
C27_Witness ==
    /\ Called("ai_turn")
    /\ call.info.branch = "move"
    /\ ~game_over
    /\ View("orig").current_player = WHITE
    /\ NoMoveFor(BLACK, View("orig"))

(* The game ended on a move of the human with cells still empty. *)
C27_WitnessOver ==
    /\ Called("click")
    /\ call.ret
    /\ game_over
    /\ Pieces(None, View("orig")) > 0

(* The loop plays the reference games. *)
MainFollowsGame ==
    (call.op \in MainOps /\ off = 0 /\ pos = Len(Game)) => game_over

MainFollowsGameWitness ==
    call.op \in MainOps /\ off = 0 /\ pos = Len(Game) /\ line = 2 /\ game_over

=============================================================================
